---- MODULE Spec2Model ----
(***************************************************************************)
(* The cross-language execution bridge of src/protocol/python: the         *)
(* ExecutionBridge (bridge.py), the part of ToolProtocol that routes a     *)
(* call (protocol.py) and the ToolRegistry lookups it performs             *)
(* (registry.py), as a state machine of asyncio tasks on one event loop.   *)
(* One step of the model is one run of a coroutine between two             *)
(* suspension points, or one callback of the event loop (a line read from  *)
(* the peer, a timer of asyncio.wait_for), or one step of the peer.        *)
(***************************************************************************)
EXTENDS Integers, Sequences, FiniteSets, TLC

\* ------------------------------------------------------------------ bounds
\* Caller tasks; each issues one call on the shared bridge.
MaxTasks == 2
\* Peer processes the bridge may spawn in one behaviour.
MaxProcs == 2
\* Caller tasks of the behaviours with overlapping shutdowns.
MaxOwners == 3
\* Cancellation signals set by callers in one behaviour.
MaxCancels == 1
\* Iterations of the readiness loop (range(100) in the code, bridge.py:173).
ReadyAttempts == 2
\* Recognised substrings one error message contains.
MaxMarkers == 2
\* add_handler calls on one middleware.
MaxCustom == 1
\* register, clear and load_python_module calls on one registry.
MaxRegOps == 3
\* register_tool, unregister_tool, import_registry and _sync_remote_tools calls on one manager.
MaxManagerOps == 3
\* register, unregister and load_typescript_module calls on one UnifiedToolRegistry.
MaxUnifiedOps == 3
\* lines one server reads.
MaxLines == 2
\* The longest map key of a converted tree.
MaxKeyLen == 2
\* The largest attempt number given to a RetryStrategy.
MaxAttempt == 3
\* Tasks that call CircuitBreaker.execute.
MaxCallers == 2
\* execute calls of one task on the CircuitBreaker.
MaxExecutes == 3
\* The last reading of the clock.
MaxTime == 4
\* The threshold and the reset_timeout the CircuitBreaker is constructed with.
Threshold == 2
ResetTimeout == 1

\* ------------------------------------------------- program constants
\* The key 'ready-check' of pending_requests; the numeric request ids are
\* str(n) for n >= 0, which str() maps injectively and never to this key.
ReadyCheckId == -1
\* The id 'shutdown' of the shutdown envelope.
ShutdownId == -2
\* No id: a result that did not come out of a response.
NoId == -3

Tasks == 1..MaxTasks
Procs == 1..MaxProcs
\* typescript_process = None
None == 0

ToolIds == {"echo", "missing"}
Languages == {"python", "typescript"}
\* A parameter object is modelled by the set of keys it has.
ParamKeys == {"message"}
\* The calls of the model: echo with and without its required key, and a
\* tool that nobody registered.
CallInputs == {<<"echo", {"message"}>>, <<"echo", {}>>, <<"missing", {}>>}

VARIABLES
    typescript_process,  \* ExecutionBridge.typescript_process: None or a process
    running,             \* ExecutionBridge.running
    request_id,          \* ExecutionBridge.request_id
    pending_requests,    \* ExecutionBridge.pending_requests: key -> the task awaiting the future
    tools,               \* ToolRegistry._tools: <<language, id>> -> registration
    procState,           \* every spawned peer process: "alive" or "exited"
    readers,             \* the processes a _read_typescript_output task is blocked reading
    wire,                \* every envelope written to a peer's stdin
    ready,               \* the processes whose _wait_for_ready has observed a pong
    pc,                  \* each task's suspension point
    call,                \* each task's call and its arguments
    fut,                 \* the state of the future each task awaits
    futval,              \* the response that future was resolved with
    myid,                \* the request id a task allocated for its call
    attempt,             \* the iteration of _wait_for_ready a task is in
    waitproc,            \* the process whose exit a shutdown() awaits
    abort,               \* context.abort (the cancellation signal) of the task's call
    handlerCalls,        \* how often the local handler was invoked for the call
    resolutions,         \* how often the call's future was resolved (result or cancel)
    outcome,             \* what the call gave its caller: a result or an exception
    signals,             \* the terminate() and kill() calls made: <<process, signal>>
    garbled,             \* the processes that have sent a line that is not JSON
    thrown,              \* the exception the local handler raised for the call
    handlers,            \* ErrorHandlingMiddleware.handlers
    error,               \* the exception given to handle_error
    result,              \* what handle_error gave: a ToolExecutionResult, or its own exception
    latest,              \* <<language, id>> -> the registration last made for the pair since the last clear
    lastOp,              \* the last operation on the registry, with the registry it found
    regOps,              \* how many operations the registry has seen
    manager,             \* ToolRegistryManager: tools, remote_tools, capabilities, categories
    managerOps,          \* how many operations the manager has seen
    unified,             \* UnifiedToolRegistry.tools, the adapter's table and _initialized, the registers suspended before it or raised
    unifiedOps,          \* how many operations the unified registry has seen
    server,              \* ToolProtocol.run_server: its state, the last line it read, what it wrote for it
    arg,                 \* the input given to a conversion or a validation
    val,                 \* what the conversion or validation gave for it
    breaker,             \* CircuitBreaker: _state, _failures, _last_failure_time
    now,                 \* what time.time() returns
    executing            \* each caller of CircuitBreaker.execute: where it is

vars == <<typescript_process, running, request_id, pending_requests, tools,
          procState, readers, wire, ready, pc, call, fut, futval,
          myid, attempt, waitproc, abort, handlerCalls, resolutions, outcome,
          signals, garbled, thrown,
          handlers, error, result, latest, lastOp, regOps, manager, managerOps,
          unified, unifiedOps, server, arg, val, breaker, now, executing>>

ghostVars == <<abort, handlerCalls, resolutions, signals, garbled, thrown>>

\* The state of the bridge: what the actions of ExecutionBridge change.
bridgeVars == <<typescript_process, running, request_id, pending_requests,
                procState, readers, wire, ready, pc, call, fut, futval,
                myid, attempt, waitproc, abort, handlerCalls, resolutions, outcome,
                signals, garbled, thrown>>

\* The state the bridge reads and never writes.
libVars == <<tools, handlers, error, result, latest, lastOp, regOps,
            manager, managerOps, unified, unifiedOps, server, arg, val,
            breaker, now, executing>>

\* ToolProtocol.run_server (src/protocol/python/protocol.py).
serverVars == <<server>>

\* CircuitBreaker (src/shared/types/python/utils.py), the clock and its callers.
breakerVars == <<breaker, now, executing>>

\* The converters and validators (src/shared/types, src/shared/tools).
pureVars == <<arg, val>>

\* UnifiedToolRegistry (src/shared/tools/registry.py).
unifiedVars == <<unified, unifiedOps>>

\* ToolRegistryManager (src/protocol/python/tool_registry_manager.py).
managerVars == <<manager, managerOps>>

\* ToolRegistry (src/protocol/python/registry.py) and the history of its use.
registryVars == <<tools, latest, lastOp, regOps>>

\* ErrorHandlingMiddleware (src/shared/tools/error_handler.py).
middlewareVars == <<handlers, error, result>>

\* ------------------------------------------------------------ values
NoCall == [op |-> "none", tool |-> "", language |-> "", params |-> {}]
NoOutcome == [kind |-> "none", exc |-> "", msg |-> <<>>, respId |-> NoId]
NoResponse == [id |-> NoId, kind |-> "none", proc |-> None]

Return(rid) == [kind |-> "return", exc |-> "", msg |-> <<>>, respId |-> rid]
Raise(e, m, rid) == [kind |-> "raise", exc |-> e, msg |-> m, respId |-> rid]

\* A registration's schema: the keys the parameter object must have.
EchoSchema == [required |-> {"message"}]

\* One line written to a peer's stdin. task, k and afterPong are not on the
\* wire: they record who wrote the line, that it is the k-th line of that
\* task, and whether a readiness handshake had by then observed a pong of
\* that process.
Envelope(p, id, method, t, c, rdy) ==
    [proc |-> p, id |-> id, method |-> method, task |-> t,
     k |-> Cardinality({e \in wire : e.task = t}) + 1,
     tool |-> IF method = "tool.execute" THEN c.tool ELSE "",
     params |-> IF method = "tool.execute" THEN c.params ELSE {},
     afterPong |-> p \in rdy]

\* dict.pop(key, None) and dict[key] = value on pending_requests.
Pop(d, k) == [x \in (DOMAIN d) \ {k} |-> d[x]]
Put(d, k, v) == [x \in (DOMAIN d) \cup {k} |-> IF x = k THEN v ELSE d[x]]

\* ---------------------------------------------------------- ToolRegistry
\* Tool ids as strings: the pieces a ':' splits the id into, with the ':'.
Segments(id) ==
    IF id = "python:echo" THEN <<"python", ":", "echo">> ELSE <<id>>

\* A key that leaves the runtime out.
RegistryKey_id_only(language, id) == <<":">> \o Segments(id)

\* The key of a registration, f"{language}:{id}" (lines 26 and 32).
RegistryKey(language, id) == <<language, ":">> \o Segments(id)

ToolRegistration(id, language, schema, handler) ==
    [id |-> id, language |-> language, schema |-> schema, handler |-> handler]

\* ToolRegistry.register on the dict d.
register(d, registration) ==
    Put(d, RegistryKey(registration.language, registration.id), registration)

\* ToolRegistry.get: the Optional result is the set of at most one registration.
ToolRegistry_get(id, language) ==
    IF RegistryKey(language, id) \in DOMAIN tools
    THEN {tools[RegistryKey(language, id)]}
    ELSE {}

\* ToolRegistry.list_tools: one dict per value of _tools.
list_tools ==
    [k \in DOMAIN tools |-> [id |-> tools[k].id, language |-> tools[k].language,
                              schema |-> tools[k].schema]]

\* The modules load_python_module is given: one that loads, and one for
\* each way the load fails.
ModuleDefects == {"none", "import fails", "no tool_info", "no tool_function",
                  "tool_info raises", "tool_info has no name"}

\* load_python_module that registers the module under its path before it
\* looks at what the module holds.
load_python_module_eager(d, name, defect, handler) ==
    IF defect = "import fails"
    THEN [tools |-> d, raised |-> "ValueError"]
    ELSE [tools |-> register(d, ToolRegistration(name, "python", EchoSchema, handler)),
          raised |-> IF defect = "none" THEN "" ELSE "ValueError"]

\* load_python_module lines 89-101 with register_python_tool lines 52-71:
\* the registry it leaves and the exception it raises ("" for none).
load_python_module(d, name, defect, handler) ==
    IF defect # "none"
    THEN [tools |-> d, raised |-> "ValueError"]
    ELSE [tools |-> register(d, ToolRegistration(name, "python", EchoSchema, handler)),
          raised |-> ""]

\* SchemaTranslator.validate_json_schema, for the schemas of the model: one
\* message per missing required key, the first of them twice.
ValidationErrors(schema, params) ==
    LET missing == schema.required \ params
    IN  IF missing = {} THEN 0 ELSE 1 + Cardinality(missing)

\* validate_parameters that accepts every parameter object of a registered tool.
validate_parameters_unchecked(id, language, params) ==
    [valid |-> ToolRegistry_get(id, language) # {}, errors |-> 0]

\* ToolRegistry.validate_parameters.
validate_parameters(id, language, params) ==
    IF ToolRegistry_get(id, language) = {}
    THEN [valid |-> FALSE, errors |-> 1]
    ELSE LET tool == CHOOSE r \in ToolRegistry_get(id, language) : TRUE
             n == ValidationErrors(tool.schema, params)
         IN  [valid |-> n = 0, errors |-> n]

\* None of the callers T has called yet.
InitCallersOf(T) ==
    /\ request_id = 0
    /\ pending_requests = << >>
    /\ pc = [t \in T |-> "idle"]
    /\ call = [t \in T |-> NoCall]
    /\ fut = [t \in T |-> "none"]
    /\ futval = [t \in T |-> NoResponse]
    /\ myid = [t \in T |-> NoId]
    /\ attempt = [t \in T |-> 0]
    /\ waitproc = [t \in T |-> None]
    /\ abort = [t \in T |-> FALSE]
    /\ signals = {}
    /\ garbled = {}
    /\ handlerCalls = [t \in T |-> 0]
    /\ thrown = [t \in T |-> NoOutcome]
    /\ resolutions = [t \in T |-> 0]
    /\ outcome = [t \in T |-> NoOutcome]

\* No caller of the model has called yet.
InitCallers == InitCallersOf(Tasks)

\* ExecutionBridge.__init__, and no caller has called yet.
InitBridge ==
    /\ typescript_process = None
    /\ running = FALSE
    /\ procState = << >>
    /\ readers = {}
    /\ wire = {}
    /\ ready = {}
    /\ InitCallers

\* The bridge after an initialize() that spawned process 1 and saw its pong
\* on the first ping; the caller of that initialize() (task 0) is not one of
\* Tasks.
InitLivePeer ==
    /\ typescript_process = 1
    /\ running = TRUE
    /\ procState = <<"alive">>
    /\ readers = {1}
    /\ wire = {[proc |-> 1, id |-> ReadyCheckId, method |-> "ping", task |-> 0,
                k |-> 1, tool |-> "", params |-> {}, afterPong |-> FALSE]}
    /\ ready = {1}
    /\ InitCallers

\* The same bridge with MaxOwners callers.
Owners == 1..MaxOwners
InitLiveOwners ==
    /\ typescript_process = 1
    /\ running = TRUE
    /\ procState = <<"alive">>
    /\ readers = {1}
    /\ wire = {[proc |-> 1, id |-> ReadyCheckId, method |-> "ping", task |-> 0,
                k |-> 1, tool |-> "", params |-> {}, afterPong |-> FALSE]}
    /\ ready = {1}
    /\ InitCallersOf(Owners)

\* The registry the bridge runs against: echo registered in both runtimes.
NoOp == [op |-> "none", before |-> << >>, raised |-> "", key |-> << >>]

InitRegistry ==
    /\ tools = register(register(<< >>,
                    ToolRegistration("echo", "python", EchoSchema, 0)),
                    ToolRegistration("echo", "typescript", EchoSchema, 0))
    /\ latest = [k \in {<<"python", "echo">>, <<"typescript", "echo">>} |->
                   ToolRegistration("echo", k[1], EchoSchema, 0)]
    /\ lastOp = NoOp
    /\ regOps = 0

\* ------------------------------------------- ErrorHandlingMiddleware
\* The substrings of str(error).lower() that some can_handle or
\* _is_retryable looks for. None of them contains another one.
Markers ==
    {"timeout", "validation", "invalid parameters", "typescript",
     "permission denied", "access denied", "not found", "does not exist",
     "econnrefused", "enotfound", "etimedout", "connection", "temporary"}

\* The exception classes the handlers test with isinstance or by name.
ErrorTypes ==
    {"Exception", "ValueError", "TimeoutError", "ValidationError",
     "PermissionError", "FileNotFoundError", "ImportError"}

\* An exception: its class, the markers its message contains, and its
\* code and source attributes ("" when it has none).
Errors ==
    [type : ErrorTypes,
     markers : {m \in SUBSET Markers : Cardinality(m) <= MaxMarkers},
     code : {"", "ETIMEDOUT", "TYPESCRIPT_EXECUTION_ERROR"},
     source : {"", "typescript"}]

\* ErrorHandlingMiddleware.__init__, lines 265-273.
DefaultHandlers ==
    <<"TimeoutErrorHandler", "ValidationErrorHandler",
      "TypeScriptExecutionErrorHandler", "PermissionErrorHandler",
      "ResourceErrorHandler", "PythonExecutionErrorHandler", "DefaultErrorHandler">>

\* Handlers a caller adds: one that matches no error and one that matches all.
CustomHandlers == {"CustomNever", "CustomAlways"}

\* can_handle of each handler class.
can_handle(h, e) ==
    CASE h = "TimeoutErrorHandler" ->
            \/ "timeout" \in e.markers
            \/ e.type = "TimeoutError"
            \/ e.code = "ETIMEDOUT"
      [] h = "ValidationErrorHandler" ->
            \/ e.type = "ValidationError"
            \/ "validation" \in e.markers
            \/ "invalid parameters" \in e.markers
      [] h = "TypeScriptExecutionErrorHandler" ->
            \/ "typescript" \in e.markers
            \/ e.source = "typescript"
            \/ e.code = "TYPESCRIPT_EXECUTION_ERROR"
      [] h = "PermissionErrorHandler" ->
            \/ e.type = "PermissionError"
            \/ "permission denied" \in e.markers
            \/ "access denied" \in e.markers
      [] h = "ResourceErrorHandler" ->
            \/ e.type = "FileNotFoundError"
            \/ "not found" \in e.markers
            \/ "does not exist" \in e.markers
      [] h = "PythonExecutionErrorHandler" -> TRUE
      [] h = "DefaultErrorHandler" -> TRUE
      [] h = "CustomAlways" -> TRUE
      [] OTHER -> FALSE

\* TypeScriptExecutionErrorHandler._is_retryable, lines 130-135.
TypeScript_is_retryable(e) ==
    e.markers \cap {"econnrefused", "enotfound", "etimedout"} # {}

\* PythonExecutionErrorHandler._is_retryable, lines 160-170.
Python_is_retryable(e) ==
    /\ e.type # "ImportError"
    /\ e.markers \cap {"connection", "timeout", "temporary"} # {}

ToolError(code, retryable) == [code |-> code, retryable |-> retryable]

\* handle of each handler class: the code and the retryable flag of the
\* ToolError it creates.
handle(h, e) ==
    CASE h = "TimeoutErrorHandler" -> ToolError("TOOL_TIMEOUT", TRUE)
      [] h = "ValidationErrorHandler" -> ToolError("VALIDATION_ERROR", FALSE)
      [] h = "TypeScriptExecutionErrorHandler" ->
            ToolError("TYPESCRIPT_EXECUTION_ERROR", TypeScript_is_retryable(e))
      [] h = "PermissionErrorHandler" -> ToolError("PERMISSION_DENIED", FALSE)
      [] h = "ResourceErrorHandler" -> ToolError("RESOURCE_NOT_FOUND", FALSE)
      [] h = "PythonExecutionErrorHandler" ->
            ToolError("PYTHON_EXECUTION_ERROR", Python_is_retryable(e))
      [] h = "DefaultErrorHandler" -> ToolError("UNKNOWN_ERROR", FALSE)
      [] OTHER -> ToolError("CUSTOM_ERROR", FALSE)

NoResult == [status |-> "none", error |-> ToolError("", FALSE)]

\* handle_error lines 278-298: the first handler of the list that can
\* handle the error makes the ToolError; next() on an exhausted generator
\* raises StopIteration.
handle_error(hs, e) ==
    LET matching == {i \in 1..Len(hs) : can_handle(hs[i], e)}
    IN  IF matching = {}
        THEN [status |-> "StopIteration", error |-> ToolError("", FALSE)]
        ELSE LET first == CHOOSE i \in matching : \A j \in matching : i <= j
             IN  [status |-> "error", error |-> handle(hs[first], e)]

\* add_handler that appends the handler to the list.
add_handler_append(hs, h, priority) == Append(hs, h)

\* add_handler lines 302-307: list.insert(len - 1, handler), for either priority.
add_handler(hs, h, priority) ==
    SubSeq(hs, 1, Len(hs) - 1) \o <<h>> \o SubSeq(hs, Len(hs), Len(hs))

InitMiddleware ==
    /\ handlers = DefaultHandlers
    /\ error = CHOOSE e \in Errors : e.type = "Exception" /\ e.markers = {}
                                      /\ e.code = "" /\ e.source = ""
    /\ result = NoResult

\* ----------------------------------------------- ToolRegistryManager
\* A dict of sets, d[key].add(id) with the key made on demand (lines 164-172).
AddTo(d, key, id) ==
    Put(d, key, IF key \in DOMAIN d THEN d[key] \cup {id} ELSE {id})

\* d[key].discard(id) for a key the dict has (lines 183-189).
DiscardFrom(d, key, id) ==
    IF key \in DOMAIN d THEN [d EXCEPT ![key] = @ \ {id}] ELSE d

RECURSIVE AddToAll(_, _, _)
AddToAll(d, keys, id) ==
    IF keys = {} THEN d
    ELSE LET k == CHOOSE x \in keys : TRUE
         IN  AddToAll(AddTo(d, k, id), keys \ {k}, id)

RECURSIVE DiscardFromAll(_, _, _)
DiscardFromAll(d, keys, id) ==
    IF keys = {} THEN d
    ELSE LET k == CHOOSE x \in keys : TRUE
         IN  DiscardFromAll(DiscardFrom(d, k, id), keys \ {k}, id)

\* ToolRegistryManager.__init__, lines 78-81.
EmptyManager ==
    [tools |-> << >>, remote_tools |-> << >>, capabilities |-> << >>, categories |-> << >>]

\* register_tool lines 160-172. The lock is free whenever a task runs, as
\* no holder suspends, so the body runs without suspending.
register_tool(m, tool) ==
    [m EXCEPT !.tools = Put(@, tool.id, tool),
              !.capabilities = AddToAll(@, tool.capabilities, tool.id),
              !.categories = AddTo(@, tool.category, tool.id)]

\* unregister_tool lines 178-191.
unregister_tool(m, tool_id) ==
    IF tool_id \in DOMAIN m.tools
    THEN LET tool == m.tools[tool_id]
         IN  [m EXCEPT !.tools = Pop(@, tool_id),
                       !.capabilities = DiscardFromAll(@, tool.capabilities, tool_id),
                       !.categories = DiscardFrom(@, tool.category, tool_id)]
    ELSE m

\* import_registry lines 384-386: from_dict and register_tool for each
\* entry of "tools"; an entry from_dict cannot read raises and ends the import.
RECURSIVE ImportTools(_, _)
ImportTools(m, entries) ==
    IF entries = << >> THEN [manager |-> m, raised |-> ""]
    ELSE IF ~Head(entries).wellFormed THEN [manager |-> m, raised |-> "KeyError"]
    ELSE ImportTools(register_tool(m, Head(entries).tool), Tail(entries))

\* import_registry lines 388-391: the entries of "remote_tools".
RECURSIVE ImportRemoteTools(_, _)
ImportRemoteTools(m, entries) ==
    IF entries = << >> THEN [manager |-> m, raised |-> ""]
    ELSE IF ~Head(entries).wellFormed THEN [manager |-> m, raised |-> "KeyError"]
    ELSE ImportRemoteTools(
             [m EXCEPT !.remote_tools = Put(@, Head(entries).tool.id, Head(entries).tool)],
             Tail(entries))

\* import_registry lines 374-391 for a file that json.load can read.
import_registry(m, data) ==
    LET local == ImportTools(EmptyManager, data.tools)
    IN  IF local.raised # "" THEN local
        ELSE ImportRemoteTools(local.manager, data.remote_tools)

\* _sync_remote_tools lines 279-291: each tool of the response goes into
\* remote_tools and into both indexes; an entry from_dict cannot read raises
\* into the except of line 295, which ends the loop.
RECURSIVE SyncRemoteEntries(_, _)
SyncRemoteEntries(m, entries) ==
    IF entries = << >> \/ ~Head(entries).wellFormed THEN m
    ELSE LET tool == Head(entries).tool
         IN  SyncRemoteEntries(
                 [m EXCEPT !.remote_tools = Put(@, tool.id, tool),
                           !.capabilities = AddToAll(@, tool.capabilities, tool.id),
                           !.categories = AddTo(@, tool.category, tool.id)],
                 Tail(entries))

\* _sync_remote_tools lines 257-296 on a manager that has a bridge.
\* response.kind: "raises" when send_request raised (line 271, caught at
\* line 295), "error" for an answer without "result", "result" otherwise.
sync_remote_tools(m, response) ==
    IF response.kind = "result"
    THEN SyncRemoteEntries([m EXCEPT !.remote_tools = << >>], response.tools)
    ELSE m

\* get_tool lines 194-204; a tool is returned with the table it came from.
get_tool(m, tool_id) ==
    IF tool_id \in DOMAIN m.tools THEN {[tool |-> m.tools[tool_id], remote |-> FALSE]}
    ELSE IF tool_id \in DOMAIN m.remote_tools
         THEN {[tool |-> m.remote_tools[tool_id], remote |-> TRUE]}
         ELSE {}

\* list_tools lines 213-227 with neither category nor language given; the
\* result as the set of its elements.
manager_list_tools(m, capabilities) ==
    LET listed == {[tool |-> m.tools[id], remote |-> FALSE] : id \in DOMAIN m.tools}
                 \cup {[tool |-> m.remote_tools[id], remote |-> TRUE] : id \in DOMAIN m.remote_tools}
    IN  IF capabilities # {}
        THEN {t \in listed : capabilities \subseteq t.tool.capabilities}
        ELSE listed

\* get_tools_by_capability lines 242-253; the result as the set of its elements.
get_tools_by_capability(m, capability) ==
    LET tool_ids == IF capability \in DOMAIN m.capabilities
                    THEN m.capabilities[capability] ELSE {}
    IN  UNION {get_tool(m, tool_id) : tool_id \in tool_ids}

InitManager ==
    /\ manager = EmptyManager
    /\ managerOps = 0

\* ----------------------------------------------- UnifiedToolRegistry
\* A language_map is a dict, which keeps its keys in the order of their
\* first insertion: the sequence of its items.
Item(language, tool) == [language |-> language, tool |-> tool]

\* language_map[language] = registration (line 63).
SetItem(lm, language, tool) ==
    IF \E i \in 1..Len(lm) : lm[i].language = language
    THEN [i \in 1..Len(lm) |-> IF lm[i].language = language
                                THEN Item(language, tool) ELSE lm[i]]
    ELSE Append(lm, Item(language, tool))

\* del language_map[language] (line 91).
DelItem(lm, language) == SelectSeq(lm, LAMBDA it : it.language # language)

\* UnifiedToolRegistry.register lines 61-70, up to its await.
unified_register(d, tool) ==
    Put(d, tool.id, SetItem(IF tool.id \in DOMAIN d THEN d[tool.id] ELSE << >>,
                            tool.language, tool))

\* UnifiedToolRegistry.unregister; language "" is no language given.
unified_unregister(d, tool_id, language) ==
    IF language # ""
    THEN IF tool_id \in DOMAIN d /\ d[tool_id] # << >>
            /\ \E i \in 1..Len(d[tool_id]) : d[tool_id][i].language = language
         THEN IF DelItem(d[tool_id], language) = << >>
              THEN Pop(d, tool_id)
              ELSE [d EXCEPT ![tool_id] = DelItem(@, language)]
         ELSE d
    ELSE Pop(d, tool_id)

\* UnifiedToolRegistry.get; language "" is no language given. The Optional
\* result is the set of at most one tool.
unified_get(d, tool_id, language) ==
    IF tool_id \notin DOMAIN d \/ d[tool_id] = << >> THEN {}
    ELSE IF language # ""
    THEN {d[tool_id][i].tool : i \in {j \in 1..Len(d[tool_id]) :
                                         d[tool_id][j].language = language}}
    ELSE {d[tool_id][1].tool}

InitUnified ==
    /\ unified = [tools |-> << >>, typescript_tools |-> {}, registering |-> {},
                  initialized |-> FALSE, raised |-> {}]
    /\ unifiedOps = 0

\* ------------------------------------------- ToolProtocol.run_server
\* ErrorCode (types.py).
ParseError == -32700
InvalidRequest == -32600
ToolNotFound == -32601
InvalidParams == -32602
InternalError == -32603
ExecutionError == -32000
TimeoutError == -32001
PermissionDenied == -32002

\* A line the server reads. shape tells whether it is JSON and whether the
\* JSON value is an object; the other fields are the members of the object,
\* "absent" for a member it does not have. params is "absent", "null" or
\* "object", and module, tool, language, context and parameters are the
\* members of that object.
BaseLine ==
    [shape |-> "object", jsonrpc |-> "2.0", id |-> "7", method |-> "ping",
     params |-> "absent", module |-> "absent", tool |-> "absent",
     language |-> "absent", context |-> FALSE, parameters |-> "absent"]

Lines ==
    {[BaseLine EXCEPT !.shape = sh, !.id = "absent"] : sh \in {"not json", "not object"}}
    \cup
    UNION {
        {[BaseLine EXCEPT !.jsonrpc = j, !.id = i, !.method = m] :
            m \in {"ping", "shutdown", "registry.list", "nope", "absent"}}
        \cup
        {[BaseLine EXCEPT !.jsonrpc = j, !.id = i, !.method = "register.module",
                          !.params = ps] : ps \in {"absent", "null"}}
        \cup
        {[BaseLine EXCEPT !.jsonrpc = j, !.id = i, !.method = "register.module",
                          !.params = "object", !.module = mo] :
            mo \in {"absent"} \cup ModuleDefects}
        \cup
        {[BaseLine EXCEPT !.jsonrpc = j, !.id = i, !.method = "tool.execute",
                          !.params = ps] : ps \in {"absent", "null"}}
        \cup
        {[BaseLine EXCEPT !.jsonrpc = j, !.id = i, !.method = "tool.execute",
                          !.params = "object", !.tool = tl, !.language = la,
                          !.context = cx, !.parameters = pa] :
            tl \in {"absent", "echo", "missing"},
            la \in {"absent", "python", "typescript"},
            cx \in BOOLEAN,
            pa \in {"absent", "valid", "invalid"}}
        : j \in {"2.0", "absent"}, i \in {"7", "absent"}}

\* The parameter object of a tool.execute line.
ParametersOf(line) == IF line.parameters = "valid" THEN {"message"} ELSE {}

\* request.get('id', default): "null" is None, "''" the empty string.
IdOr(line, default) == IF line.id = "absent" THEN default ELSE line.id

\* A response line, and what handle_request gives: a response, or the
\* exception that leaves it.
NoLine == [BaseLine EXCEPT !.shape = "none", !.id = "absent"]
NotWritten == [kind |-> "none", id |-> "", code |-> 0, result |-> ""]
ResultResponse(id, res) == [kind |-> "result", id |-> id, code |-> 0, result |-> res]
error_response(id, code) == [kind |-> "error", id |-> id, code |-> code, result |-> ""]
Responds(r) == [raised |-> FALSE, response |-> r]
Raises == [raised |-> TRUE, response |-> NotWritten]

\* handle_request lines 84-108 gets as far as bridge.execute.
ReachesExecute(line) ==
    /\ line.shape = "object"
    /\ line.jsonrpc = "2.0"
    /\ line.method = "tool.execute"
    /\ line.params = "object"
    /\ line.tool # "absent"
    /\ line.language # "absent"
    /\ line.context
    /\ line.parameters # "absent"

\* handle_request lines 52-63 gets as far as load_python_module.
ReachesLoad(line) ==
    /\ line.shape = "object"
    /\ line.jsonrpc = "2.0"
    /\ line.method = "register.module"
    /\ line.params = "object"
    /\ line.module # "absent"

\* The ways bridge.execute can end for the line: "result", or the exception
\* it raises. Every language but 'python' goes to the peer (bridge.py:61-64).
ExecuteOutcomes(line) ==
    IF ~ReachesExecute(line) THEN {"none"}
    ELSE IF line.language = "python"
    THEN IF validate_parameters(line.tool, "python", ParametersOf(line)).valid
         THEN {"result", "HandlerError", "TimeoutError"}
         ELSE {"ValueError"}
    ELSE {"result", "ValueError", "TimeoutError", "RuntimeError"}

\* handle_request lines 77-82: the code given to a method it does not know.
UnknownMethodCode == InvalidRequest

\* ToolProtocol.handle_request for a line that is JSON; exec is the way
\* bridge.execute ends. An exception raised in the try block goes to the
\* except block of lines 121-127, which reads request.get and params.get:
\* it raises again when request is not a dict, when params is None, and when
\* params was not assigned yet.
handle_request(line, exec) ==
    IF line.shape # "object" THEN Raises
    ELSE IF line.jsonrpc # "2.0"
    THEN Responds(error_response(IdOr(line, "''"), InvalidRequest))
    ELSE IF line.method = "ping"
    THEN Responds(ResultResponse(IdOr(line, "null"), "pong"))
    ELSE IF line.method = "shutdown"
    THEN Responds(ResultResponse(IdOr(line, "null"), "ok"))
    ELSE IF line.method = "register.module"
    THEN IF line.params = "null" THEN Raises
         ELSE IF line.params = "absent" \/ line.module = "absent"
         THEN Responds(error_response(IdOr(line, "null"), InvalidParams))
         ELSE IF line.module # "none"
         THEN Responds(error_response(IdOr(line, "null"), InternalError))
         ELSE Responds(ResultResponse(IdOr(line, "null"), "ok"))
    ELSE IF line.method # "tool.execute"
    THEN Responds(error_response(IdOr(line, "null"), UnknownMethodCode))
    ELSE IF line.params = "null" THEN Raises
    ELSE IF line.params = "absent" \/ line.tool = "absent" \/ line.language = "absent"
    THEN Responds(error_response(IdOr(line, "null"), InvalidParams))
    ELSE IF ~line.context \/ line.parameters = "absent"
    THEN Responds(error_response(IdOr(line, "''"), ExecutionError))
    ELSE IF exec = "result"
    THEN Responds(ResultResponse(IdOr(line, "null"), "tool result"))
    ELSE Responds(error_response(IdOr(line, "''"), ExecutionError))

\* run_server lines 242-252: what is done with one non-empty line.
serve_line(line, exec) ==
    IF line.shape = "not json"
    THEN Responds(error_response("''", ParseError))
    ELSE handle_request(line, exec)

InitServer ==
    server = [state |-> "serving", served |-> 0, line |-> NoLine, response |-> NotWritten]

\* ------------------------------------------------- values and keys
\* A Python or JSON value: its kind, the text of a primitive, and the keys
\* and members of a container (a list has no keys). A string, and so a key of
\* a dict, is the sequence of its characters.
Node(kind, v, keys, items) == [kind |-> kind, v |-> v, keys |-> keys, items |-> items]
Leaf(kind, v) == Node(kind, v, << >>, << >>)
ListOf(items) == Node("list", << >>, << >>, items)
DictOf(keys, items) == Node("dict", << >>, keys, items)
PyNone == Leaf("none", << >>)
Str(v) == Leaf("str", v)

\* The characters of the model, and str.lower / str.upper on one of them.
LowerChars == {"a", "b"}
UpperChars == {"A", "B"}
DigitChars == {"1"}
lower(c) == IF c = "A" THEN "a" ELSE IF c = "B" THEN "b" ELSE c
upper(c) == IF c = "a" THEN "A" ELSE IF c = "b" THEN "B" ELSE c
str_lower(s) == [i \in 1..Len(s) |-> lower(s[i])]

\* str.capitalize: the first character in upper case, the rest in lower case.
capitalize(s) ==
    IF s = << >> THEN << >> ELSE <<upper(s[1])>> \o str_lower(Tail(s))

\* name.split('_')
RECURSIVE split(_)
split(s) ==
    IF \A i \in 1..Len(s) : s[i] # "_" THEN <<s>>
    ELSE LET i == CHOOSE k \in 1..Len(s) :
                      s[k] = "_" /\ \A m \in 1..(k - 1) : s[m] # "_"
         IN  <<SubSeq(s, 1, i - 1)>> \o split(SubSeq(s, i + 1, Len(s)))

RECURSIVE join_capitalized(_)
join_capitalized(components) ==
    IF components = << >> THEN << >>
    ELSE capitalize(Head(components)) \o join_capitalized(Tail(components))

\* case_converter.snake_to_camel
snake_to_camel(name) ==
    LET components == split(name)
    IN  Head(components) \o join_capitalized(Tail(components))

\* The end of the run of lower-case letters that starts at j.
RunEnd(s, j) ==
    CHOOSE k \in j..Len(s) :
        /\ \A m \in j..k : s[m] \in LowerChars
        /\ k = Len(s) \/ s[k + 1] \notin LowerChars

\* re.sub('(.)([A-Z][a-z]+)', r'\1_\2', s) from position i on: the matches
\* are taken from left to right and do not overlap.
RECURSIVE sub_word(_, _)
sub_word(s, i) ==
    IF i > Len(s) THEN << >>
    ELSE IF i + 2 <= Len(s) /\ s[i + 1] \in UpperChars /\ s[i + 2] \in LowerChars
    THEN <<s[i], "_">> \o SubSeq(s, i + 1, RunEnd(s, i + 2))
             \o sub_word(s, RunEnd(s, i + 2) + 1)
    ELSE <<s[i]>> \o sub_word(s, i + 1)

\* re.sub('([a-z0-9])([A-Z])', r'\1_\2', s) from position i on.
RECURSIVE sub_hump(_, _)
sub_hump(s, i) ==
    IF i > Len(s) THEN << >>
    ELSE IF i + 1 <= Len(s) /\ s[i] \in LowerChars \cup DigitChars
            /\ s[i + 1] \in UpperChars
    THEN <<s[i], "_", s[i + 1]>> \o sub_hump(s, i + 2)
    ELSE <<s[i]>> \o sub_hump(s, i + 1)

\* case_converter.camel_to_snake
camel_to_snake(name) == str_lower(sub_hump(sub_word(name, 1), 1))

\* keys_to_snake_case and keys_to_camel_case on the values of the model; a
\* dict of the model has at most one key, so no two keys fall together.
RECURSIVE keys_to_snake_case(_)
keys_to_snake_case(obj) ==
    IF obj.kind = "list"
    THEN ListOf([i \in 1..Len(obj.items) |-> keys_to_snake_case(obj.items[i])])
    ELSE IF obj.kind = "dict"
    THEN DictOf([i \in 1..Len(obj.keys) |-> camel_to_snake(obj.keys[i])],
                [i \in 1..Len(obj.items) |-> keys_to_snake_case(obj.items[i])])
    ELSE obj

RECURSIVE keys_to_camel_case(_)
keys_to_camel_case(obj) ==
    IF obj.kind = "list"
    THEN ListOf([i \in 1..Len(obj.items) |-> keys_to_camel_case(obj.items[i])])
    ELSE IF obj.kind = "dict"
    THEN DictOf([i \in 1..Len(obj.keys) |-> snake_to_camel(obj.keys[i])],
                [i \in 1..Len(obj.items) |-> keys_to_camel_case(obj.items[i])])
    ELSE obj

\* dict lookups: key in d, d[key].
Has(d, key) == \E i \in 1..Len(d.keys) : d.keys[i] = key
Get(d, key) == d.items[CHOOSE i \in 1..Len(d.keys) : d.keys[i] = key]

\* An exception that leaves the function, and a container one of whose
\* members could not be computed: the exception leaves the comprehension.
Raised(exc) == Leaf("raise", <<exc>>)
Propagate(container) ==
    IF \E i \in 1..Len(container.items) : container.items[i].kind = "raise"
    THEN container.items[CHOOSE i \in 1..Len(container.items) :
                             container.items[i].kind = "raise"]
    ELSE container

\* The texts datetime.fromisoformat, base64.b64decode and Decimal accept.
IsoText == <<"2024-01-01T00:00:00">>
Base64Text == <<"aGVsbG8=">>
DecimalText == <<"1">>

\* hash(x) raises TypeError for a list, a dict and a set.
Hashable(x) == x.kind \notin {"list", "dict", "set"}

\* set(x): TypeError for a value that cannot be iterated or has a member
\* that cannot be hashed.
SetFrom(x) ==
    IF x.kind \in {"list", "set"}
    THEN IF \A i \in 1..Len(x.items) : Hashable(x.items[i])
         THEN Node("set", << >>, << >>, x.items)
         ELSE Raised("TypeError")
    ELSE IF x.kind = "str"
    THEN Node("set", << >>, << >>, [i \in 1..Len(x.v) |-> Str(<<x.v[i]>>)])
    ELSE IF x.kind = "dict"
    THEN Node("set", << >>, << >>, [i \in 1..Len(x.keys) |-> Str(x.keys[i])])
    ELSE Raised("TypeError")

\* -------------- TypeConverter of the agent runtime (from_js_to_python)
TypeKey == <<"__type">>

RECURSIVE from_js_to_python(_)

\* The 'Map' branch of _handle_special_type, lines 157-162: every entry is
\* unpacked into a key and a value.
MapFrom(entries) ==
    IF entries.kind # "list" THEN Raised("TypeError")
    ELSE IF \E i \in 1..Len(entries.items) :
               \/ entries.items[i].kind # "list"
               \/ Len(entries.items[i].items) # 2
    THEN Raised("ValueError")
    ELSE LET ks == [i \in 1..Len(entries.items) |->
                       from_js_to_python(entries.items[i].items[1])]
             vs == [i \in 1..Len(entries.items) |->
                       from_js_to_python(entries.items[i].items[2])]
         IN  IF \E i \in 1..Len(ks) : ks[i].kind = "raise" \/ ~Hashable(ks[i])
             THEN Raised("TypeError")
             ELSE Propagate(Node("dict", << >>, [i \in 1..Len(ks) |-> ks[i].v], vs))

\* TypeConverter._handle_special_type. data["value"] and data["data"] are
\* read in the try block and again in the except block, so a missing field
\* raises KeyError from the except block.
handle_special_type(data) ==
    LET type_name == Get(data, TypeKey)
    IN  IF type_name = Str(<<"Date">>)
        THEN IF ~Has(data, <<"value">>) THEN Raised("KeyError")
             ELSE IF Get(data, <<"value">>) = Str(IsoText)
             THEN Leaf("datetime", IsoText)
             ELSE Get(data, <<"value">>)
        ELSE IF type_name = Str(<<"Buffer">>)
        THEN IF ~Has(data, <<"data">>) THEN Raised("KeyError")
             ELSE IF Get(data, <<"data">>) = Str(Base64Text)
             THEN Leaf("bytes", Base64Text)
             ELSE Get(data, <<"data">>)
        ELSE IF type_name = Str(<<"Set">>)
        THEN IF ~Has(data, <<"values">>) THEN Raised("KeyError")
             ELSE IF from_js_to_python(Get(data, <<"values">>)).kind = "raise"
             THEN from_js_to_python(Get(data, <<"values">>))
             ELSE SetFrom(from_js_to_python(Get(data, <<"values">>)))
        ELSE IF type_name = Str(<<"Map">>)
        THEN IF ~Has(data, <<"entries">>) THEN DictOf(<< >>, << >>)
             ELSE MapFrom(Get(data, <<"entries">>))
        ELSE data

\* TypeConverter.from_js_to_python
from_js_to_python(data) ==
    IF data.kind = "none" \/ data = Str(<<"null">>) \/ data = Str(<<"undefined">>)
    THEN PyNone
    ELSE IF data.kind \in {"str", "int", "float", "bool"} THEN data
    ELSE IF data.kind = "list"
    THEN Propagate(ListOf([i \in 1..Len(data.items) |-> from_js_to_python(data.items[i])]))
    ELSE IF data.kind = "dict"
    THEN IF Has(data, TypeKey)
         THEN handle_special_type(data)
         ELSE Propagate(DictOf(data.keys,
                  [i \in 1..Len(data.items) |-> from_js_to_python(data.items[i])]))
    ELSE data

\* TypeConverter.from_python_to_js
RECURSIVE from_python_to_js(_)
from_python_to_js(data) ==
    IF data.kind \in {"none", "str", "int", "float", "bool"} THEN data
    ELSE IF data.kind = "bytes"
    THEN DictOf(<<TypeKey, <<"data">>>>, <<Str(<<"Buffer">>), Str(data.v)>>)
    ELSE IF data.kind = "datetime"
    THEN DictOf(<<TypeKey, <<"value">>>>, <<Str(<<"Date">>), Str(data.v)>>)
    ELSE IF data.kind = "Decimal" THEN Leaf("float", data.v)
    ELSE IF data.kind \in {"list", "tuple"}
    THEN ListOf([i \in 1..Len(data.items) |-> from_python_to_js(data.items[i])])
    ELSE IF data.kind = "dict"
    THEN DictOf(data.keys, [i \in 1..Len(data.items) |-> from_python_to_js(data.items[i])])
    ELSE IF data.kind = "set"
    THEN DictOf(<<TypeKey, <<"values">>>>,
                <<Str(<<"Set">>),
                  ListOf([i \in 1..Len(data.items) |-> from_python_to_js(data.items[i])])>>)
    ELSE Str(<<"str(data)">>)

\* ---------- TypeConverter of the shared tools (typescript_to_python)
TypeKey2 == <<"__type__">>

\* value.get(key, default)
GetOr(d, key, default) == IF Has(d, key) THEN Get(d, key) ELSE default

\* The branches of typescript_to_python for the type indicators it knows,
\* lines 25-40; NotSpecial when the indicator is another one.
NotSpecial == Leaf("not special", << >>)
special_type(value) ==
    LET type_name == Get(value, TypeKey2)
    IN  IF type_name = Str(<<"datetime">>)
        THEN IF GetOr(value, <<"isoformat">>, Str(<< >>)) = Str(IsoText)
             THEN Leaf("datetime", IsoText)
             ELSE IF GetOr(value, <<"isoformat">>, Str(<< >>)).kind = "str"
             THEN Raised("ValueError")
             ELSE Raised("TypeError")
        ELSE IF type_name = Str(<<"set">>)
        THEN SetFrom(GetOr(value, <<"items">>, ListOf(<< >>)))
        ELSE IF type_name = Str(<<"bytes">>)
        THEN LET data == GetOr(value, <<"data">>, ListOf(<< >>))
             IN  IF data.kind = "list"
                 THEN IF \A i \in 1..Len(data.items) : data.items[i].kind \in {"int", "bool"}
                      THEN Leaf("bytes", <<"bytes(data)">>)
                      ELSE Raised("TypeError")
                 ELSE IF data.kind = "str"
                 THEN IF data.v = Base64Text THEN Leaf("bytes", Base64Text)
                      ELSE Raised("binascii.Error")
                 ELSE Leaf("bytes", << >>)
        ELSE IF type_name = Str(<<"Decimal">>)
        THEN LET x == GetOr(value, <<"value">>, Str(<<"0">>))
             IN  IF x.kind \in {"int", "float", "bool"} THEN Leaf("Decimal", x.v)
                 ELSE IF x.kind = "str"
                 THEN IF x.v \in {DecimalText, <<"0">>} THEN Leaf("Decimal", x.v)
                      ELSE Raised("InvalidOperation")
                 ELSE Raised("TypeError")
        ELSE NotSpecial

\* TypeConverter.typescript_to_python
RECURSIVE typescript_to_python(_)
typescript_to_python(value) ==
    IF value.kind = "dict" /\ Has(value, TypeKey2) /\ special_type(value) # NotSpecial
    THEN special_type(value)
    ELSE IF value.kind = "dict"
    THEN Propagate(DictOf(value.keys,
             [i \in 1..Len(value.items) |-> typescript_to_python(value.items[i])]))
    ELSE IF value.kind = "list"
    THEN Propagate(ListOf([i \in 1..Len(value.items) |->
                              typescript_to_python(value.items[i])]))
    ELSE value

\* TypeConverter.python_to_typescript. setattr on a list raises
\* AttributeError, so every tuple does.
RECURSIVE python_to_typescript(_)
python_to_typescript(value) ==
    IF value.kind = "datetime"
    THEN DictOf(<<TypeKey2, <<"isoformat">>>>, <<Str(<<"datetime">>), Str(value.v)>>)
    ELSE IF value.kind = "set"
    THEN DictOf(<<TypeKey2, <<"items">>>>, <<Str(<<"set">>), ListOf(value.items)>>)
    ELSE IF value.kind = "bytes"
    THEN DictOf(<<TypeKey2, <<"data">>>>, <<Str(<<"bytes">>), Str(value.v)>>)
    ELSE IF value.kind = "Decimal"
    THEN DictOf(<<TypeKey2, <<"value">>>>, <<Str(<<"Decimal">>), Str(value.v)>>)
    ELSE IF value.kind = "tuple" THEN Raised("AttributeError")
    ELSE IF value.kind = "dict"
    THEN Propagate(DictOf(value.keys,
             [i \in 1..Len(value.items) |-> python_to_typescript(value.items[i])]))
    ELSE IF value.kind = "list"
    THEN Propagate(ListOf([i \in 1..Len(value.items) |->
                              python_to_typescript(value.items[i])]))
    ELSE value

\* --------------------------- TypeConverter.validate_against_schema
\* A schema: its 'type' ("absent" when it has none), the set of the other
\* keywords it has, and the value of each. The schemas of the model have no
\* items, properties, minItems, maxItems or additionalProperties.
NoKeywords ==
    [type |-> "absent", has |-> {}, enum |-> {}, const |-> PyNone, minimum |-> 0,
     maximum |-> 0, minLength |-> 0, maxLength |-> 0, pattern |-> "", required |-> {},
     anyOf |-> << >>, oneOf |-> << >>, allOf |-> << >>]

\* The number a value stands for; True is 1 and False is 0.
Digits == <<"0", "1", "2", "3">>
Number(n) == Leaf("int", <<Digits[n + 1]>>)
Boolean(b) == Leaf("bool", <<IF b THEN "true" ELSE "false">>)
NumberOf(x) ==
    IF x.kind = "bool" THEN (IF x = Boolean(TRUE) THEN 1 ELSE 0)
    ELSE (CHOOSE n \in 1..Len(Digits) : Digits[n] = x.v[1]) - 1

\* re.match(c, value) for a pattern of one literal character.
re_match(c, value) == value # << >> /\ value[1] = c

\* TypeConverter.validate_against_schema: TRUE for (True, None). A branch
\* for a type returns, so the keywords after the branches are only looked at
\* in a schema without a type.
RECURSIVE validate_against_schema(_, _)
validate_against_schema(value, schema) ==
    IF schema.type = "string"
    THEN /\ value.kind = "str"
         /\ "minLength" \in schema.has => Len(value.v) >= schema.minLength
         /\ "maxLength" \in schema.has => Len(value.v) <= schema.maxLength
         /\ "pattern" \in schema.has => re_match(schema.pattern, value.v)
         /\ "enum" \in schema.has => value \in schema.enum
    ELSE IF schema.type \in {"number", "integer"}
    THEN /\ value.kind \in {"int", "float", "bool"}
         /\ schema.type = "integer" => value.kind \in {"int", "bool"}
         /\ "minimum" \in schema.has => NumberOf(value) >= schema.minimum
         /\ "maximum" \in schema.has => NumberOf(value) <= schema.maximum
    ELSE IF schema.type = "boolean" THEN value.kind = "bool"
    ELSE IF schema.type = "array" THEN value.kind = "list"
    ELSE IF schema.type = "object"
    THEN /\ value.kind = "dict"
         /\ "required" \in schema.has => \A key \in schema.required : Has(value, key)
    ELSE IF schema.type = "null" THEN value.kind = "none"
    ELSE IF "anyOf" \in schema.has
    THEN \E i \in 1..Len(schema.anyOf) : validate_against_schema(value, schema.anyOf[i])
    ELSE IF "oneOf" \in schema.has
    THEN Cardinality({i \in 1..Len(schema.oneOf) :
                         validate_against_schema(value, schema.oneOf[i])}) = 1
    ELSE IF "allOf" \in schema.has
    THEN \A i \in 1..Len(schema.allOf) : validate_against_schema(value, schema.allOf[i])
    ELSE TRUE

\* The number of messages in the pair validate_against_schema returns: its
\* second member is None or the one message of the return that failed.
error_messages(value, schema) ==
    IF validate_against_schema(value, schema) THEN 0 ELSE 1

\* No conversion or validation has been asked for.
NoArg == [op |-> "none"]
NoVal == [stage |-> 0]

\* ------------------------------------------------------- RetryStrategy
\* RetryStrategy.__init__ lines 244-249. backoff_multiplier is the fraction
\* num / den; the values used are exact as floats.
Strategy(max_attempts, num, den, initial_delay, max_delay) ==
    [max_attempts |-> max_attempts, num |-> num, den |-> den,
     initial_delay |-> initial_delay, max_delay |-> max_delay]

\* RetryStrategy() with the defaults of line 244-245.
DefaultStrategy == Strategy(3, 2, 1, 1000, 30000)

RECURSIVE Power(_, _)
Power(b, e) == IF e = 0 THEN 1 ELSE b * Power(b, e - 1)

\* should_retry line 253.
should_retry(strategy, n, last_error) ==
    n < strategy.max_attempts /\ last_error.retryable

\* get_delay lines 257-258 for the attempt n >= 0 and initial_delay >= 0:
\* int() drops the fraction of initial_delay * backoff_multiplier ** n.
get_delay(strategy, n) ==
    LET delay == (strategy.initial_delay * Power(strategy.num, n))
                     \div Power(strategy.den, n)
    IN  IF delay < strategy.max_delay THEN delay ELSE strategy.max_delay

\* is_retryable line 320.
is_retryable(e) == e.retryable

NoStrategy == Strategy(0, 0, 1, 0, 0)

\* create_retry_strategy lines 324-328: None, or a RetryStrategy with the defaults.
create_retry_strategy(e) ==
    IF ~is_retryable(e) THEN [none |-> TRUE, strategy |-> NoStrategy]
    ELSE [none |-> FALSE, strategy |-> DefaultStrategy]

\* ------------------------------------------------------ CircuitBreaker
Callers == 1..MaxCallers

\* CircuitBreaker.__init__ lines 202-208. _last_failure_time is read only as
\* (self._last_failure_time or 0) (line 214), so None is held as 0.
InitBreaker ==
    /\ breaker = [state |-> "closed", failures |-> 0, last_failure_time |-> 0]
    /\ now = 1
    /\ executing = [c \in Callers |-> [pc |-> "idle", trial |-> FALSE, executes |-> 0]]

\* _on_success lines 227-230. The lock is free whenever a task asks for it,
\* as no holder suspends, so the body runs without suspending.
on_success(b) == [b EXCEPT !.failures = 0, !.state = "closed"]

\* _on_failure lines 234-239, at the time t.
on_failure(b, t) ==
    [b EXCEPT !.failures = @ + 1,
              !.last_failure_time = t,
              !.state = IF b.failures + 1 >= Threshold THEN "open" ELSE @]

\* execute lines 212-217: the call is let through, and as the trial call
\* when it found the breaker open after reset_timeout.
Admitted(b, t) ==
    b.state # "open" \/ t - b.last_failure_time > ResetTimeout

InitPure ==
    /\ arg = NoArg
    /\ val = NoVal

Init ==
    /\ InitBridge
    /\ InitRegistry
    /\ InitMiddleware
    /\ InitManager
    /\ InitUnified
    /\ InitServer
    /\ InitBreaker
    /\ InitPure

\* ------------------------------------------------------------- helpers
\* The call ends: its coroutine returns or raises to the caller.
Finish(t, o) ==
    /\ pc' = [pc EXCEPT ![t] = "done"]
    /\ outcome' = [outcome EXCEPT ![t] = o]

Suspend(t, at) ==
    /\ pc' = [pc EXCEPT ![t] = at]
    /\ UNCHANGED outcome

\* Tasks are numbered in the order in which they issue their calls.
MayStart(t) ==
    /\ pc[t] = "idle"
    /\ \A u \in Tasks : u < t => pc[u] # "idle"

\* stdin.write + flush on process p: the write fails on no process
\* (None has no stdin) and on a process that has exited (EPIPE).
WriteError(p) ==
    IF p = None THEN "AttributeError"
    ELSE IF procState[p] = "exited" THEN "BrokenPipeError"
    ELSE "ok"

NewProc == Cardinality(DOMAIN procState) + 1

\* initialize, lines 36-48: spawn the peer, set running, start the reader.
Spawn ==
    /\ NewProc <= MaxProcs
    /\ typescript_process' = NewProc
    /\ running' = TRUE
    /\ procState' = Put(procState, NewProc, "alive")
    /\ readers' = readers \cup {NewProc}

\* _wait_for_ready, lines 174-188: one iteration up to its wait_for. The
\* future is stored under 'ready-check' before the ping is written; err is
\* the result of the write to process p.
Ping(t, p, err) ==
    /\ fut' = [fut EXCEPT ![t] = "pending"]
    /\ futval' = [futval EXCEPT ![t] = NoResponse]
    /\ pending_requests' = Put(pending_requests, ReadyCheckId, t)
    /\ attempt' = [attempt EXCEPT ![t] = @ + 1]
    /\ IF err = "ok"
       THEN /\ wire' = wire \cup {Envelope(p, ReadyCheckId, "ping", t, NoCall, ready)}
            /\ Suspend(t, "hs_wait")
       ELSE /\ UNCHANGED wire
            /\ Finish(t, Raise(err, <<>>, NoId))
    /\ UNCHANGED <<request_id, myid, ready>>

\* An allocation that does not advance the counter.
AllocateId_no_increment == [id |-> request_id, next |-> request_id]

\* The id a call allocates: _execute_typescript lines 102-103,
\* register_typescript_module lines 237 and 242.
AllocateId == [id |-> request_id, next |-> request_id + 1]

\* _execute_typescript lines 102-132 and register_typescript_module lines
\* 235-251, up to the wait_for: allocate the id, store the future, write the
\* envelope. c is the call, rdy the processes known ready.
SendRequest(t, method, c, at, rdy) ==
    LET rid == AllocateId.id
        err == WriteError(typescript_process)
    IN  /\ request_id' = AllocateId.next
        /\ myid' = [myid EXCEPT ![t] = rid]
        /\ fut' = [fut EXCEPT ![t] = "pending"]
        /\ futval' = [futval EXCEPT ![t] = NoResponse]
        /\ pending_requests' = Put(pending_requests, rid, t)
        /\ IF err = "ok"
           THEN /\ wire' = wire \cup {Envelope(typescript_process, rid, method, t, c, rdy)}
                /\ Suspend(t, at)
           ELSE /\ UNCHANGED wire
                /\ Finish(t, Raise(err, <<>>, NoId))
        /\ UNCHANGED <<typescript_process, running, procState, readers, attempt>>

\* ------------------------------------------------------ ToolProtocol
\* execute_tool that asks the TypeScript registry first.
ResolveLanguage_typescript_first(tool, language) ==
    IF language # "auto" THEN language
    ELSE IF ToolRegistry_get(tool, "typescript") # {} THEN "typescript"
    ELSE IF ToolRegistry_get(tool, "python") # {} THEN "python"
    ELSE "not found"

\* execute_tool lines 188-200: the runtime a call is routed to.
ResolveLanguage(tool, language) ==
    IF language # "auto" THEN language
    ELSE LET py == ToolRegistry_get(tool, "python") # {}
             ts == ToolRegistry_get(tool, "typescript") # {}
         IN  IF py /\ ~ts THEN "python"
             ELSE IF ts /\ ~py THEN "typescript"
             ELSE IF py /\ ts THEN "python"
             ELSE "not found"

\* An execute call; language is the runtime the call is routed to.
ExecuteCall(tool, language, params) ==
    [op |-> "execute", tool |-> tool, language |-> ResolveLanguage(tool, language),
     params |-> params]

\* execute_tool without a language, for a tool no runtime has.
ExecuteNotFound(t, tool, params) ==
    /\ MayStart(t)
    /\ ResolveLanguage(tool, "auto") = "not found"
    /\ call' = [call EXCEPT ![t] = ExecuteCall(tool, "auto", params)]
    /\ Finish(t, Raise("ValueError", <<"Tool '", tool, "' not found">>, NoId))
    /\ UNCHANGED <<typescript_process, running, request_id, pending_requests, libVars,
                   procState, readers, wire, ready, fut, futval, myid, attempt,
                   waitproc, ghostVars>>

\* ---------------------------------------------------- ExecutionBridge
\* execute -> _execute_python, up to the await of the handler.
ExecutePython(t, tool, language, params) ==
    /\ MayStart(t)
    /\ ResolveLanguage(tool, language) = "python"
    /\ call' = [call EXCEPT ![t] = ExecuteCall(tool, language, params)]
    /\ IF ToolRegistry_get(tool, "python") = {}
       THEN /\ Finish(t, Raise("ValueError", <<"Python tool '", tool, "' not found">>, NoId))
            /\ UNCHANGED handlerCalls
       ELSE IF ~validate_parameters(tool, "python", params).valid
       THEN /\ Finish(t, Raise("ValueError", <<"Invalid parameters: ", "errors">>, NoId))
            /\ UNCHANGED handlerCalls
       ELSE /\ handlerCalls' = [handlerCalls EXCEPT ![t] = @ + 1]
            /\ Suspend(t, "py_run")
    /\ UNCHANGED <<typescript_process, running, request_id, pending_requests, libVars,
                   procState, readers, wire, ready, fut, futval, myid, attempt,
                   waitproc, abort, resolutions, signals, garbled, thrown>>

\* The handler returns a ToolResult before the timeout.
HandlerReturn(t) ==
    /\ pc[t] = "py_run"
    /\ Finish(t, Return(NoId))
    /\ UNCHANGED <<typescript_process, running, request_id, pending_requests, libVars,
                   procState, readers, wire, ready, call, fut, futval, myid, attempt,
                   waitproc, ghostVars>>

\* What a handler raises: an exception of its own, or the
\* asyncio.TimeoutError of an await that timed out inside it.
HandlerErrors ==
    {Raise("HandlerError", <<"handler message">>, NoId),
     Raise("asyncio.TimeoutError", <<"handler message">>, NoId)}

\* _execute_python lines 83-90 when the handler raises e: wait_for passes
\* the exception on, and the except clause turns an asyncio.TimeoutError,
\* the handler's own too, into the TimeoutError of the bridge.
HandlerRaise(t, e) ==
    /\ pc[t] = "py_run"
    /\ thrown' = [thrown EXCEPT ![t] = e]
    /\ IF e.exc = "asyncio.TimeoutError"
       THEN Finish(t, Raise("TimeoutError", <<"Tool execution timed out">>, NoId))
       ELSE Finish(t, e)
    /\ UNCHANGED <<typescript_process, running, request_id, pending_requests, libVars,
                   procState, readers, wire, ready, call, fut, futval, myid, attempt,
                   waitproc, abort, handlerCalls, resolutions, signals, garbled>>

\* _execute_python lines 89-90: the handler overran context.timeout.
PythonTimeout(t) ==
    /\ pc[t] = "py_run"
    /\ Finish(t, Raise("TimeoutError", <<"Tool execution timed out">>, NoId))
    /\ UNCHANGED <<typescript_process, running, request_id, pending_requests, libVars,
                   procState, readers, wire, ready, call, fut, futval, myid, attempt,
                   waitproc, ghostVars>>

\* initialize lines 31-51 when there is no process: spawn it and run
\* _wait_for_ready up to its first wait_for.
InitializeBody(t) ==
    /\ Spawn
    /\ Ping(t, NewProc, "ok")

\* initialize() called by the caller.
Initialize(t) ==
    /\ MayStart(t)
    /\ call' = [call EXCEPT ![t] = [NoCall EXCEPT !.op = "initialize"]]
    /\ IF typescript_process # None
       THEN /\ Finish(t, Return(NoId))
            /\ UNCHANGED <<typescript_process, running, request_id, pending_requests,
                           procState, readers, wire, ready, fut, futval, myid, attempt>>
       ELSE InitializeBody(t)
    /\ UNCHANGED <<libVars, waitproc, ghostVars>>

\* execute -> _execute_typescript, up to its first suspension: the
\* handshake when there is no process, the wait for the response otherwise.
ExecuteTypescript(t, tool, language, params) ==
    /\ MayStart(t)
    /\ ResolveLanguage(tool, language) = "typescript"
    /\ call' = [call EXCEPT ![t] = ExecuteCall(tool, language, params)]
    /\ IF typescript_process = None
       THEN InitializeBody(t)
       ELSE /\ SendRequest(t, "tool.execute", ExecuteCall(tool, language, params),
                           "ts_wait", ready)
            /\ UNCHANGED ready
    /\ UNCHANGED <<libVars, waitproc, ghostVars>>

\* register_typescript_module, up to its first suspension.
RegisterModule(t) ==
    /\ MayStart(t)
    /\ call' = [call EXCEPT ![t] = [NoCall EXCEPT !.op = "register"]]
    /\ IF typescript_process = None
       THEN InitializeBody(t)
       ELSE /\ SendRequest(t, "register.module", NoCall, "reg_wait", ready)
            /\ UNCHANGED ready
    /\ UNCHANGED <<libVars, waitproc, ghostVars>>

\* _wait_for_ready lines 188-192: wait_for(future, 0.1) times out; the
\* coroutine goes on to sleep. The 'ready-check' entry stays in the table.
HandshakeTimeout(t) ==
    /\ pc[t] = "hs_wait"
    /\ fut[t] = "pending"
    /\ fut' = [fut EXCEPT ![t] = "cancelled"]
    /\ Suspend(t, "hs_sleep")
    /\ UNCHANGED <<typescript_process, running, request_id, pending_requests, libVars,
                   procState, readers, wire, ready, call, futval, myid, attempt,
                   waitproc, ghostVars>>

\* _wait_for_ready lines 173-196 after the sleep: the next iteration, or
\* RuntimeError after the last one.
HandshakeRetry(t) ==
    /\ pc[t] = "hs_sleep"
    /\ IF attempt[t] < ReadyAttempts
       THEN Ping(t, typescript_process, WriteError(typescript_process))
       ELSE /\ Finish(t, Raise("RuntimeError", <<"TypeScript bridge failed to start">>, NoId))
            /\ UNCHANGED <<request_id, pending_requests, wire, ready, fut, futval,
                           myid, attempt>>
    /\ UNCHANGED <<typescript_process, running, libVars, procState, readers, call,
                   waitproc, ghostVars>>

\* _wait_for_ready lines 188-190: the awaited future holds a response. On a
\* pong the handshake returns, initialize returns, and the caller of
\* initialize runs on without suspending: _execute_typescript and
\* register_typescript_module send their request in the same step.
HandshakeResume(t) ==
    /\ pc[t] = "hs_wait"
    /\ fut[t] = "result"
    /\ IF futval[t].kind = "pong"
       THEN /\ ready' = ready \cup {futval[t].proc}
            /\ IF call[t].op = "initialize"
               THEN /\ Finish(t, Return(NoId))
                    /\ UNCHANGED <<typescript_process, running, request_id,
                                   pending_requests, procState, readers, wire, fut,
                                   futval, myid, attempt>>
               ELSE SendRequest(t,
                        IF call[t].op = "execute" THEN "tool.execute" ELSE "register.module",
                        call[t],
                        IF call[t].op = "execute" THEN "ts_wait" ELSE "reg_wait",
                        ready \cup {futval[t].proc})
       ELSE /\ Suspend(t, "hs_sleep")
            /\ UNCHANGED <<typescript_process, running, request_id, pending_requests,
                           procState, readers, wire, ready, fut, futval, myid, attempt>>
    /\ UNCHANGED <<libVars, call, waitproc, ghostVars>>

\* The answers a peer can give to an envelope.
ResponseKinds(method) ==
    IF method = "ping" THEN {"pong"}
    ELSE IF method = "shutdown" THEN {"result"}
    ELSE {"result", "error"}

\* A dispatch that takes responses to arrive in the order of the requests:
\* it resolves the oldest pending entry.
ResponseTarget_fifo(id) ==
    IF DOMAIN pending_requests # {}
    THEN pending_requests[CHOOSE k \in DOMAIN pending_requests :
                             \A j \in DOMAIN pending_requests : k <= j]
    ELSE 0

\* _handle_response lines 165-166: the owner of the future stored under the
\* response's id, or 0 when the table has no such key.
ResponseTarget(id) ==
    IF id \in DOMAIN pending_requests THEN pending_requests[id] ELSE 0

\* _execute_typescript that takes a result after its deadline has passed.
ExecuteOutcome_after_deadline(state, response) ==
    IF response.kind = "error"
    THEN Raise("ValueError", <<"peer error message">>, response.id)
    ELSE Return(response.id)

\* _execute_typescript that carries a peer's error inside a returned result.
ExecuteOutcome_error_in_result(state, response) ==
    IF state = "cancelled"
    THEN Raise("TimeoutError", <<"TypeScript tool execution timed out">>, NoId)
    ELSE Return(response.id)

\* The ToolResult or the exception _execute_typescript ends with, lines
\* 132-138, given the state of its future.
ExecuteOutcome(state, response) ==
    IF state = "cancelled"
    THEN Raise("TimeoutError", <<"TypeScript tool execution timed out">>, NoId)
    ELSE IF response.kind = "error"
    THEN Raise("ValueError", <<"peer error message">>, response.id)
    ELSE Return(response.id)

\* register_typescript_module lines 250-254: the response is not looked at.
RegisterOutcome(state, response) ==
    IF state = "cancelled"
    THEN Raise("TimeoutError", <<"Registration timeout">>, NoId)
    ELSE Return(response.id)

\* _read_typescript_output lines 142-156 with _handle_response: the reader
\* blocked on process p reads the peer's answer to envelope e, dispatches
\* it, and loops while the bridge is running and has a process. A call
\* whose future gets its result runs on from its wait_for to its end
\* (lines 132-135, 251) without reading anything another task writes, so
\* the model lets it end in the same step; a handshake reads the bridge's
\* process when it runs on, and does so in a step of its own.
HandleResponse(p, e, kind) ==
    /\ p \in readers
    /\ procState[p] = "alive"
    /\ e \in wire
    /\ e.proc = p
    /\ kind \in ResponseKinds(e.method)
    /\ LET owner == ResponseTarget(e.id)
           deliver == owner # 0 /\ fut[owner] = "pending"
           response == [id |-> e.id, kind |-> kind, proc |-> p]
       IN  /\ pending_requests' = Pop(pending_requests, e.id)
           /\ fut' = IF deliver THEN [fut EXCEPT ![owner] = "result"] ELSE fut
           /\ futval' = IF deliver THEN [futval EXCEPT ![owner] = response] ELSE futval
           /\ resolutions' = IF deliver /\ e.id # ReadyCheckId
                              THEN [resolutions EXCEPT ![owner] = @ + 1]
                              ELSE resolutions
           /\ IF deliver /\ pc[owner] = "ts_wait"
              THEN Finish(owner, ExecuteOutcome("result", response))
              ELSE IF deliver /\ pc[owner] = "reg_wait"
              THEN Finish(owner, RegisterOutcome("result", response))
              ELSE UNCHANGED <<pc, outcome>>
    /\ readers' = IF running /\ typescript_process # None
                  THEN (readers \ {p}) \cup {typescript_process}
                  ELSE readers \ {p}
    /\ UNCHANGED <<typescript_process, running, request_id, libVars, procState, wire,
                   ready, call, myid, attempt, waitproc, abort, handlerCalls,
                   signals, garbled, thrown>>

\* asyncio.wait_for(future, timeout) of lines 132 and 251: the timer fires
\* while the future is pending and cancels it; the coroutine is scheduled
\* and runs its except block in a later step of the loop.
RequestTimeout(t) ==
    /\ pc[t] \in {"ts_wait", "reg_wait"}
    /\ fut[t] = "pending"
    /\ fut' = [fut EXCEPT ![t] = "cancelled"]
    /\ resolutions' = [resolutions EXCEPT ![t] = @ + 1]
    /\ UNCHANGED <<typescript_process, running, request_id, pending_requests, libVars,
                   procState, readers, wire, ready, pc, call, futval, myid, attempt,
                   waitproc, abort, handlerCalls, outcome, signals, garbled, thrown>>

\* An except block that sends the request again instead of raising.
TimeoutResume_retry(t) ==
    /\ pc[t] \in {"ts_wait", "reg_wait"}
    /\ fut[t] = "cancelled"
    /\ SendRequest(t, IF pc[t] = "ts_wait" THEN "tool.execute" ELSE "register.module",
                   call[t], pc[t], ready)
    /\ UNCHANGED <<libVars, ready, call, waitproc, ghostVars>>

\* _execute_typescript lines 136-138 and register_typescript_module lines
\* 252-254: the except block of a call whose wait_for timed out.
TimeoutResume(t) ==
    /\ pc[t] \in {"ts_wait", "reg_wait"}
    /\ fut[t] = "cancelled"
    /\ pending_requests' = Pop(pending_requests, myid[t])
    /\ Finish(t, IF pc[t] = "ts_wait"
                 THEN ExecuteOutcome("cancelled", futval[t])
                 ELSE RegisterOutcome("cancelled", futval[t]))
    /\ UNCHANGED <<typescript_process, running, request_id, libVars, procState, readers,
                   wire, ready, call, fut, futval, myid, attempt, waitproc, ghostVars>>

\* shutdown lines 200-221: clear running, write the shutdown envelope and
\* await the exit of the process.
Shutdown(t) ==
    /\ MayStart(t)
    /\ call' = [call EXCEPT ![t] = [NoCall EXCEPT !.op = "shutdown"]]
    /\ running' = FALSE
    /\ IF typescript_process = None
       THEN /\ Finish(t, Return(NoId))
            /\ UNCHANGED <<wire, waitproc>>
       ELSE IF WriteError(typescript_process) # "ok"
       THEN /\ Finish(t, Raise(WriteError(typescript_process), <<>>, NoId))
            /\ UNCHANGED <<wire, waitproc>>
       ELSE /\ wire' = wire \cup
                    {Envelope(typescript_process, ShutdownId, "shutdown", t, NoCall, ready)}
            /\ waitproc' = [waitproc EXCEPT ![t] = typescript_process]
            /\ Suspend(t, "sd_wait")
    /\ UNCHANGED <<typescript_process, request_id, pending_requests, libVars, procState,
                   readers, ready, fut, futval, myid, attempt, ghostVars>>

\* shutdown lines 215-228: the awaited process has exited within the bound.
ShutdownExited(t) ==
    /\ pc[t] = "sd_wait"
    /\ procState[waitproc[t]] = "exited"
    /\ typescript_process' = None
    /\ Finish(t, Return(NoId))
    /\ UNCHANGED <<running, request_id, pending_requests, libVars, procState, readers,
                   wire, ready, call, fut, futval, myid, attempt, waitproc, ghostVars>>

\* shutdown lines 222-224: the wait timed out; terminate() whatever process
\* the bridge holds now, and sleep.
ShutdownTimeout(t) ==
    /\ pc[t] = "sd_wait"
    /\ procState[waitproc[t]] = "alive"
    /\ IF typescript_process = None
       THEN /\ Finish(t, Raise("AttributeError", <<>>, NoId))
            /\ UNCHANGED signals
       ELSE /\ signals' = signals \cup {<<typescript_process, "terminate">>}
            /\ Suspend(t, "sd_term")
    /\ UNCHANGED <<typescript_process, running, request_id, pending_requests, libVars,
                   procState, readers, wire, ready, call, fut, futval, myid, attempt,
                   waitproc, abort, handlerCalls, resolutions, garbled, thrown>>

\* shutdown lines 225-228: after the sleep, kill() the process the bridge
\* holds if poll() finds it has not exited, and drop the handle. The reader
\* blocked on the output of a killed process reads '' and ends.
ShutdownKill(t) ==
    /\ pc[t] = "sd_term"
    /\ IF typescript_process = None
       THEN /\ Finish(t, Raise("AttributeError", <<>>, NoId))
            /\ UNCHANGED <<typescript_process, procState, signals, readers>>
       ELSE /\ IF procState[typescript_process] = "alive"
               THEN /\ signals' = signals \cup {<<typescript_process, "kill">>}
                    /\ procState' = [procState EXCEPT ![typescript_process] = "exited"]
                    /\ readers' = readers \ {typescript_process}
               ELSE UNCHANGED <<signals, procState, readers>>
            /\ typescript_process' = None
            /\ Finish(t, Return(NoId))
    /\ UNCHANGED <<running, request_id, pending_requests, libVars, wire, ready,
                   call, fut, futval, myid, attempt, waitproc, abort, handlerCalls,
                   resolutions, garbled, thrown>>

\* The peer process exits, on the shutdown request or on the signal of
\* terminate(). _read_typescript_output lines 147-148: the reader blocked on
\* its output reads '' and ends.
PeerExit(p) ==
    /\ p \in DOMAIN procState
    /\ procState[p] = "alive"
    /\ \E e \in wire : e.proc = p /\ e.method = "shutdown"
    /\ procState' = [procState EXCEPT ![p] = "exited"]
    /\ readers' = readers \ {p}
    /\ UNCHANGED <<typescript_process, running, request_id, pending_requests, libVars,
                   wire, ready, pc, call, fut, futval, myid, attempt,
                   waitproc, ghostVars, outcome>>

\* The peer process exits without having been asked to: the reader blocked
\* on its output reads '' and ends (lines 147-148).
PeerCrash(p) ==
    /\ p \in DOMAIN procState
    /\ procState[p] = "alive"
    /\ procState' = [procState EXCEPT ![p] = "exited"]
    /\ readers' = readers \ {p}
    /\ UNCHANGED <<typescript_process, running, request_id, pending_requests, libVars,
                   wire, ready, pc, call, fut, futval, myid, attempt,
                   waitproc, ghostVars, outcome>>

\* _read_typescript_output lines 154-158: the reader blocked on process p
\* reads a line that is not JSON; json.loads raises JSONDecodeError, the line
\* is printed to stderr, and the loop goes on to its condition.
MalformedLine(p) ==
    /\ p \in readers
    /\ procState[p] = "alive"
    /\ p \notin garbled
    /\ garbled' = garbled \cup {p}
    /\ readers' = IF running /\ typescript_process # None
                  THEN (readers \ {p}) \cup {typescript_process}
                  ELSE readers \ {p}
    /\ UNCHANGED <<typescript_process, running, request_id, pending_requests, libVars,
                   procState, wire, ready, pc, call, fut, futval, myid, attempt,
                   waitproc, abort, handlerCalls, resolutions, signals, outcome, thrown>>

\* The caller sets context.abort of an execute call that is in flight.
Cancel(t) ==
    /\ call[t].op = "execute"
    /\ pc[t] \in {"hs_wait", "hs_sleep", "ts_wait", "py_run"}
    /\ ~abort[t]
    /\ Cardinality({u \in Tasks : abort[u]}) < MaxCancels
    /\ abort' = [abort EXCEPT ![t] = TRUE]
    /\ UNCHANGED <<typescript_process, running, request_id, pending_requests, libVars,
                   procState, readers, wire, ready, pc, call, fut, futval, myid,
                   attempt, waitproc, handlerCalls, resolutions, outcome,
                   signals, garbled, thrown>>

Next ==
    \/ \E t \in Tasks, in \in CallInputs :
          ExecuteNotFound(t, in[1], in[2])
    \/ \E t \in Tasks, in \in CallInputs, language \in Languages \cup {"auto"} :
          \/ ExecutePython(t, in[1], language, in[2])
          \/ ExecuteTypescript(t, in[1], language, in[2])
    \/ \E t \in Tasks :
          \/ Initialize(t)
          \/ RegisterModule(t)
          \/ Shutdown(t)
          \/ HandlerReturn(t)
          \/ \E e \in HandlerErrors : HandlerRaise(t, e)
          \/ PythonTimeout(t)
          \/ HandshakeTimeout(t)
          \/ HandshakeRetry(t)
          \/ HandshakeResume(t)
          \/ RequestTimeout(t)
          \/ TimeoutResume(t)
          \/ ShutdownExited(t)
          \/ ShutdownTimeout(t)
          \/ ShutdownKill(t)
    \/ \E p \in Procs :
          \/ \E e \in wire, kind \in {"pong", "result", "error"} : HandleResponse(p, e, kind)
          \/ PeerExit(p)

Spec == Init /\ [][Next]_vars

\* The bridge with callers that set the cancellation signal of their calls.
\* No line of the bridge reads context.abort, so Cancel changes nothing the
\* actions of Next read.
NextCancel ==
    \/ Next
    \/ \E t \in Tasks : Cancel(t)

SpecCancel == Init /\ [][NextCancel]_vars

\* ------------------------------- a bridge that has a live peer
InitLive ==
    /\ InitLivePeer
    /\ InitRegistry
    /\ InitMiddleware
    /\ InitManager
    /\ InitUnified
    /\ InitServer
    /\ InitBreaker
    /\ InitPure

\* The calls on a bridge that was initialized before: no handshake runs.
NextLive ==
    \/ \E t \in Tasks, in \in CallInputs :
          ExecuteNotFound(t, in[1], in[2])
    \/ \E t \in Tasks, in \in CallInputs, language \in Languages \cup {"auto"} :
          \/ ExecutePython(t, in[1], language, in[2])
          \/ ExecuteTypescript(t, in[1], language, in[2])
    \/ \E t \in Tasks :
          \/ Initialize(t)
          \/ RegisterModule(t)
          \/ Shutdown(t)
          \/ HandlerReturn(t)
          \/ \E e \in HandlerErrors : HandlerRaise(t, e)
          \/ PythonTimeout(t)
          \/ RequestTimeout(t)
          \/ TimeoutResume(t)
          \/ ShutdownExited(t)
          \/ ShutdownTimeout(t)
          \/ ShutdownKill(t)
    \/ \E p \in Procs :
          \/ \E e \in wire, kind \in {"pong", "result", "error"} : HandleResponse(p, e, kind)
          \/ PeerExit(p)

SpecLive == InitLive /\ [][NextLive]_vars

\* The same bridge with three callers of initialize(), execute() for the
\* peer runtime and shutdown().
InitOwnership ==
    /\ InitLiveOwners
    /\ InitRegistry
    /\ InitMiddleware
    /\ InitManager
    /\ InitUnified
    /\ InitServer
    /\ InitBreaker
    /\ InitPure

NextOwnership ==
    \/ \E t \in Owners :
          \/ Initialize(t)
          \/ ExecuteTypescript(t, "echo", "typescript", {"message"})
          \/ Shutdown(t)
          \/ ShutdownExited(t)
          \/ ShutdownTimeout(t)
          \/ ShutdownKill(t)
    \/ \E p \in Procs :
          \/ \E e \in wire, kind \in {"pong", "result", "error"} : HandleResponse(p, e, kind)
          \/ PeerExit(p)

SpecOwnership == InitOwnership /\ [][NextOwnership]_vars

\* The same bridge with a peer that can exit by itself and can send a line
\* that is not JSON.
NextFailure ==
    \/ NextLive
    \/ \E p \in Procs :
          \/ PeerCrash(p)
          \/ MalformedLine(p)

SpecFailure == InitLive /\ [][NextFailure]_vars

\* ------------------------- execute_tool without a language
\* The registry after register calls for the runtimes of byId[id], Python
\* before TypeScript.
RegistryOf(byId) ==
    LET reg(d, id, language) ==
            IF language \in byId[id]
            THEN register(d, ToolRegistration(id, language, EchoSchema, 0))
            ELSE d
        one(d, id) == reg(reg(d, id, "python"), id, "typescript")
    IN  one(one(<< >>, "echo"), "missing")

\* Any registry over the tool ids, and callers that give no language.
InitRoute ==
    /\ InitBridge
    /\ \E byId \in [ToolIds -> SUBSET Languages] :
          /\ tools = RegistryOf(byId)
          /\ latest = [k \in {x \in Languages \X ToolIds : x[1] \in byId[x[2]]} |->
                         ToolRegistration(k[2], k[1], EchoSchema, 0)]
    /\ lastOp = NoOp
    /\ regOps = 0
    /\ InitMiddleware
    /\ InitManager
    /\ InitUnified
    /\ InitServer
    /\ InitBreaker
    /\ InitPure

NextRoute ==
    \/ \E t \in Tasks, in \in CallInputs :
          \/ ExecuteNotFound(t, in[1], in[2])
          \/ ExecutePython(t, in[1], "auto", in[2])
          \/ ExecuteTypescript(t, in[1], "auto", in[2])
    \/ \E t \in Tasks :
          \/ HandlerReturn(t)
          \/ \E e \in HandlerErrors : HandlerRaise(t, e)
          \/ PythonTimeout(t)
          \/ HandshakeTimeout(t)
          \/ HandshakeRetry(t)
          \/ HandshakeResume(t)
          \/ RequestTimeout(t)
          \/ TimeoutResume(t)
    \/ \E p \in Procs :
          \E e \in wire, kind \in {"pong", "result", "error"} : HandleResponse(p, e, kind)

SpecRoute == InitRoute /\ [][NextRoute]_vars

\* ------------------------------------ the middleware on its own
\* One middleware, one exception: callers add handlers, then the exception
\* is handled.
InitErrors ==
    /\ InitBridge
    /\ InitRegistry
    /\ InitManager
    /\ InitUnified
    /\ InitServer
    /\ InitBreaker
    /\ InitPure
    /\ handlers = DefaultHandlers
    /\ error \in Errors
    /\ result = NoResult

AddHandler(h, priority) ==
    /\ result = NoResult
    /\ Len(handlers) < Len(DefaultHandlers) + MaxCustom
    /\ handlers' = add_handler(handlers, h, priority)
    /\ UNCHANGED <<bridgeVars, breakerVars, serverVars, pureVars, registryVars, managerVars, unifiedVars, error, result>>

HandleError ==
    /\ result = NoResult
    /\ result' = handle_error(handlers, error)
    /\ UNCHANGED <<bridgeVars, breakerVars, serverVars, pureVars, registryVars, managerVars, unifiedVars, handlers, error>>

NextErrors ==
    \/ \E h \in CustomHandlers, priority \in {"high", "low"} : AddHandler(h, priority)
    \/ HandleError

SpecErrors == InitErrors /\ [][NextErrors]_vars

\* -------------------------------------- the registry on its own
\* The ids tools are registered under; one of them holds a ':'.
RegIds == {"echo", "python:echo"}

\* ToolRegistry._tools = {} (line 21).
InitRegistryOps ==
    /\ InitBridge
    /\ InitMiddleware
    /\ InitManager
    /\ InitUnified
    /\ InitServer
    /\ InitBreaker
    /\ InitPure
    /\ tools = << >>
    /\ latest = << >>
    /\ lastOp = NoOp
    /\ regOps = 0

RegistryOp(op, raised, key) ==
    /\ regOps < MaxRegOps
    /\ regOps' = regOps + 1
    /\ lastOp' = [op |-> op, before |-> tools, raised |-> raised, key |-> key]
    /\ UNCHANGED <<bridgeVars, breakerVars, serverVars, pureVars, middlewareVars, managerVars, unifiedVars>>

\* ToolRegistry.register(registration); the handler is a new one each time.
Register(id, language) ==
    LET registration == ToolRegistration(id, language, EchoSchema, regOps + 1)
    IN  /\ tools' = register(tools, registration)
        /\ latest' = Put(latest, <<language, id>>, registration)
        /\ RegistryOp("register", "", <<language, id>>)

\* ToolRegistry.clear().
Clear ==
    /\ tools' = << >>
    /\ latest' = << >>
    /\ RegistryOp("clear", "", << >>)

\* ToolRegistry.load_python_module(path) of a module that names its tool id.
LoadPythonModule(id, defect) ==
    LET r == load_python_module(tools, id, defect, regOps + 1)
    IN  /\ tools' = r.tools
        /\ latest' = IF r.raised = ""
                      THEN Put(latest, <<"python", id>>,
                               ToolRegistration(id, "python", EchoSchema, regOps + 1))
                      ELSE latest
        /\ RegistryOp("load", r.raised, <<"python", id>>)

NextRegistry ==
    \/ \E id \in RegIds, language \in Languages : Register(id, language)
    \/ Clear
    \/ \E id \in RegIds, defect \in ModuleDefects : LoadPythonModule(id, defect)

SpecRegistry == InitRegistryOps /\ [][NextRegistry]_vars

\* --------------------------------------- the manager on its own
\* The tools given to the manager: two ids, each in two versions that
\* differ in category and capability.
ManagerTools ==
    [id : {"bash", "edit"}, category : {"utility", "system"},
     capabilities : {{"read"}, {"write"}}]

Entry(tool, wellFormed) == [tool |-> tool, wellFormed |-> wellFormed]

\* The registry files import_registry is given: no tool, one tool, one tool
\* and then an entry from_dict cannot read, and one remote tool.
RegistryFiles ==
    LET one == CHOOSE t \in ManagerTools : t.id = "bash" /\ t.category = "utility"
                                            /\ t.capabilities = {"read"}
    IN  {[tools |-> << >>, remote_tools |-> << >>],
         [tools |-> <<Entry(one, TRUE)>>, remote_tools |-> << >>],
         [tools |-> <<Entry(one, TRUE), Entry(one, FALSE)>>, remote_tools |-> << >>],
         [tools |-> << >>, remote_tools |-> <<Entry(one, TRUE)>>]}

\* What the bridge answers to registry.list_tools: send_request raises, an
\* answer without result, no tool, one tool, one tool and then an entry
\* from_dict cannot read.
RemoteResponses ==
    LET one == CHOOSE t \in ManagerTools : t.id = "edit" /\ t.category = "system"
                                            /\ t.capabilities = {"write"}
    IN  {[kind |-> "raises", tools |-> << >>],
         [kind |-> "error", tools |-> << >>],
         [kind |-> "result", tools |-> << >>],
         [kind |-> "result", tools |-> <<Entry(one, TRUE)>>],
         [kind |-> "result", tools |-> <<Entry(one, TRUE), Entry(one, FALSE)>>]}

InitManagerOps ==
    /\ InitBridge
    /\ InitRegistry
    /\ InitMiddleware
    /\ InitManager
    /\ InitUnified
    /\ InitServer
    /\ InitBreaker
    /\ InitPure

ManagerOp ==
    /\ managerOps < MaxManagerOps
    /\ managerOps' = managerOps + 1
    /\ UNCHANGED <<bridgeVars, breakerVars, serverVars, pureVars, registryVars, middlewareVars, unifiedVars>>

RegisterTool(tool) ==
    /\ manager' = register_tool(manager, tool)
    /\ ManagerOp

UnregisterTool(tool_id) ==
    /\ manager' = unregister_tool(manager, tool_id)
    /\ ManagerOp

ImportRegistry(data) ==
    /\ manager' = import_registry(manager, data).manager
    /\ ManagerOp

SyncRemoteTools(response) ==
    /\ manager' = sync_remote_tools(manager, response)
    /\ ManagerOp

NextManager ==
    \/ \E tool \in ManagerTools : RegisterTool(tool)
    \/ \E response \in RemoteResponses : SyncRemoteTools(response)
    \/ \E tool_id \in {"bash", "edit"} : UnregisterTool(tool_id)
    \/ \E data \in RegistryFiles : ImportRegistry(data)

SpecManager == InitManagerOps /\ [][NextManager]_vars

\* ------------------------------- the unified registry on its own
InitUnifiedOps ==
    /\ InitBridge
    /\ InitRegistry
    /\ InitMiddleware
    /\ InitManager
    /\ InitUnified
    /\ InitServer
    /\ InitBreaker
    /\ InitPure

UnifiedIds == {"bash", "edit"}

\* register(tool, handler, module): the tool is put into the map, and for a
\* TypeScript tool of a module the coroutine suspends in the adapter.
UnifiedRegister(id, language, module) ==
    LET tool == [id |-> id, language |-> language, version |-> unifiedOps + 1]
    IN  /\ unifiedOps < MaxUnifiedOps
        /\ unifiedOps' = unifiedOps + 1
        /\ unified' = [unified EXCEPT
                          !.tools = unified_register(@, tool),
                          !.registering = IF language = "typescript" /\ module
                                          THEN @ \cup {id} ELSE @,
                          !.raised = IF language = "typescript" THEN @ \ {id} ELSE @]
        /\ UNCHANGED <<bridgeVars, breakerVars, serverVars, pureVars, registryVars, middlewareVars, managerVars>>

\* PythonTypeScriptAdapter.register_typescript_tool lines 67-68, after its await.
AdapterRegister(id) ==
    /\ id \in unified.registering
    /\ unified' = [unified EXCEPT !.registering = @ \ {id},
                                   !.typescript_tools = @ \cup {id},
                                   !.initialized = TRUE]
    /\ UNCHANGED <<bridgeVars, breakerVars, serverVars, pureVars, registryVars, middlewareVars, managerVars, unifiedOps>>

\* PythonTypeScriptAdapter.initialize lines 55-60 raises in
\* register_typescript_tool line 65: the bridge could not be initialized, and
\* the exception leaves UnifiedToolRegistry.register, whose assignment to
\* self.tools (line 70) stands before the await.
AdapterInitializeRaises(id) ==
    /\ id \in unified.registering
    /\ ~unified.initialized
    /\ unified' = [unified EXCEPT !.registering = @ \ {id}, !.raised = @ \cup {id}]
    /\ UNCHANGED <<bridgeVars, breakerVars, serverVars, pureVars, registryVars, middlewareVars, managerVars, unifiedOps>>

\* PythonTypeScriptAdapter.load_typescript_module: after initialize and the
\* registration of the module with the bridge, _get_typescript_module_tools
\* (line 246) calls _execute_typescript_request, which ExecutionBridge does
\* not have: AttributeError, and no tool of the module reaches the table.
\* init_ok: initialize() did not raise.
LoadTypescriptModule(init_ok) ==
    /\ unifiedOps < MaxUnifiedOps
    /\ unifiedOps' = unifiedOps + 1
    /\ unified' = [unified EXCEPT !.initialized = @ \/ init_ok]
    /\ UNCHANGED <<bridgeVars, breakerVars, serverVars, pureVars, registryVars, middlewareVars, managerVars>>

UnifiedUnregister(id, language) ==
    /\ unifiedOps < MaxUnifiedOps
    /\ unifiedOps' = unifiedOps + 1
    /\ unified' = [unified EXCEPT !.tools = unified_unregister(@, id, language)]
    /\ UNCHANGED <<bridgeVars, breakerVars, serverVars, pureVars, registryVars, middlewareVars, managerVars>>

NextUnified ==
    \/ \E id \in UnifiedIds, language \in Languages, module \in BOOLEAN :
          UnifiedRegister(id, language, module)
    \/ \E id \in UnifiedIds : AdapterRegister(id)
    \/ \E id \in UnifiedIds : AdapterInitializeRaises(id)
    \/ \E init_ok \in BOOLEAN : LoadTypescriptModule(init_ok)
    \/ \E id \in UnifiedIds, language \in Languages \cup {""} :
          UnifiedUnregister(id, language)

SpecUnified == InitUnifiedOps /\ [][NextUnified]_vars

\* ------------------------------------ the server on its own
\* The tool id of the module a register.module line names.
PluginId == "plugin"

\* One iteration of the loop of run_server, lines 232-255: the server reads
\* a non-empty line and writes the response; an exception that leaves
\* handle_request is caught at line 253 and ends the loop with nothing
\* written to stdout. A register.module line changes the registry, a
\* shutdown line starts the task that will exit the process.
Serve(line, exec) ==
    LET h == serve_line(line, exec)
        r == load_python_module(tools, PluginId, line.module, server.served + 1)
    IN  /\ server.state \in {"serving", "shutting"}
        /\ server.served < MaxLines
        /\ exec \in ExecuteOutcomes(line)
        /\ server' = [state |-> IF h.raised THEN "stopped"
                                 ELSE IF h.response.result = "ok" /\ line.method = "shutdown"
                                 THEN "shutting"
                                 ELSE server.state,
                       served |-> server.served + 1,
                       line |-> line,
                       response |-> h.response]
        /\ IF ReachesLoad(line)
           THEN /\ tools' = r.tools
                /\ latest' = IF r.raised = ""
                              THEN Put(latest, <<"python", PluginId>>,
                                       ToolRegistration(PluginId, "python", EchoSchema,
                                                        server.served + 1))
                              ELSE latest
           ELSE UNCHANGED <<tools, latest>>
        /\ UNCHANGED <<bridgeVars, breakerVars, pureVars, middlewareVars, managerVars, unifiedVars,
                       lastOp, regOps>>

\* _shutdown lines 152-155: sys.exit after the bridge was shut down.
ServerExit ==
    /\ server.state = "shutting"
    /\ server' = [server EXCEPT !.state = "stopped"]
    /\ UNCHANGED <<bridgeVars, breakerVars, pureVars, registryVars, middlewareVars, managerVars,
                   unifiedVars>>

\* run_server lines 234-236: readline gives b'' at the end of the input.
EndOfInput ==
    /\ server.state = "serving"
    /\ server' = [server EXCEPT !.state = "stopped"]
    /\ UNCHANGED <<bridgeVars, breakerVars, pureVars, registryVars, middlewareVars, managerVars,
                   unifiedVars>>

NextServer ==
    \/ \E line \in Lines, exec \in {"none", "result", "ValueError", "HandlerError",
                                      "TimeoutError", "RuntimeError"} : Serve(line, exec)
    \/ ServerExit
    \/ EndOfInput

SpecServer == Init /\ [][NextServer]_vars

\* ------------------------------ conversions there and back again
\* Map keys of letters and digits.
KeyChars == {"a", "B", "1"}
Keys == UNION {[1..n -> KeyChars] : n \in 1..MaxKeyLen}

\* JSON primitives: strings, a number, a boolean, null.
Primitives ==
    {Str(<<"hello">>), Str(<<"null">>), Str(<<"undefined">>), Leaf("int", <<"1">>),
     Leaf("bool", <<"true">>), PyNone}

\* A tree around an inner value: the value, a list of it, a map to it.
Shapes(x) == {x, ListOf(<<x>>), DictOf(<<<<"a">>>>, <<x>>)}

\* The trees handed to the key converters and to the value codec.
KeyTrees == UNION {Shapes(DictOf(<<k>>, <<Leaf("int", <<"1">>)>>)) : k \in Keys}
ValueTrees == UNION {Shapes(x) : x \in Primitives}

InitRoundTrip ==
    /\ InitBridge
    /\ InitRegistry
    /\ InitMiddleware
    /\ InitManager
    /\ InitUnified
    /\ InitServer
    /\ InitBreaker
    /\ arg \in {[op |-> "round trip", codec |-> "keys", first |-> f, x |-> x] :
                    f \in {"toPeer", "toLocal"}, x \in KeyTrees}
               \cup {[op |-> "round trip", codec |-> "values", first |-> f, x |-> x] :
                    f \in {"toPeer", "toLocal"}, x \in ValueTrees}
    /\ val = NoVal

\* The value the next conversion takes: the tree itself, then the result of
\* the first conversion.
Current == IF val.stage = 0 THEN arg.x ELSE val.out

\* The next conversion of the round trip goes in direction d.
Due(codec, d) ==
    /\ arg.op = "round trip"
    /\ arg.codec = codec
    /\ \/ val.stage = 0 /\ arg.first = d
       \/ val.stage = 1 /\ arg.first # d

Converted(out) ==
    /\ val' = [stage |-> val.stage + 1, out |-> out]
    /\ UNCHANGED <<bridgeVars, breakerVars, serverVars, registryVars, middlewareVars, managerVars,
                   unifiedVars, arg>>

KeysToCamelCase == Due("keys", "toPeer") /\ Converted(keys_to_camel_case(Current))
KeysToSnakeCase == Due("keys", "toLocal") /\ Converted(keys_to_snake_case(Current))
FromPythonToJs == Due("values", "toPeer") /\ Converted(from_python_to_js(Current))
FromJsToPython == Due("values", "toLocal") /\ Converted(from_js_to_python(Current))

NextRoundTrip ==
    \/ KeysToCamelCase
    \/ KeysToSnakeCase
    \/ FromPythonToJs
    \/ FromJsToPython

SpecRoundTrip == InitRoundTrip /\ [][NextRoundTrip]_vars

\* ------------------------------------------- one conversion of a value
\* What the field of an envelope holds: the text its type asks for, another
\* text, a number, a list of lists, a list of one key and value pair.
FieldContents ==
    {Str(IsoText), Str(Base64Text), Str(DecimalText), Str(<<"hello">>),
     Leaf("int", <<"1">>), ListOf(<<ListOf(<<Leaf("int", <<"1">>)>>)>>),
     ListOf(<<ListOf(<<Str(<<"k">>), Leaf("int", <<"1">>)>>)>>)}

\* The envelopes {key: tag} and {key: tag, field: content}.
Envelopes(key, tag, field) ==
    {DictOf(<<key>>, <<Str(<<tag>>)>>)}
        \cup {DictOf(<<key, field>>, <<Str(<<tag>>), c>>) : c \in FieldContents}

\* The envelopes of the agent runtime and of the shared tools; "Widget" and
\* "widget" are tags neither decoder knows.
JsEnvelopes ==
    Envelopes(TypeKey, "Date", <<"value">>) \cup Envelopes(TypeKey, "Buffer", <<"data">>)
        \cup Envelopes(TypeKey, "Set", <<"values">>)
        \cup Envelopes(TypeKey, "Map", <<"entries">>)
        \cup Envelopes(TypeKey, "Widget", <<"data">>)
TypescriptEnvelopes ==
    Envelopes(TypeKey2, "datetime", <<"isoformat">>)
        \cup Envelopes(TypeKey2, "set", <<"items">>)
        \cup Envelopes(TypeKey2, "bytes", <<"data">>)
        \cup Envelopes(TypeKey2, "Decimal", <<"value">>)
        \cup Envelopes(TypeKey2, "widget", <<"data">>)

\* Python values handed to the encoders.
PythonValues ==
    Primitives
        \cup {Leaf("bytes", Base64Text), Leaf("datetime", IsoText), Leaf("Decimal", DecimalText),
              Node("set", << >>, << >>, <<Leaf("int", <<"1">>)>>),
              Node("tuple", << >>, << >>, <<Leaf("int", <<"1">>)>>),
              ListOf(<<Node("tuple", << >>, << >>, << >>)>>),
              DictOf(<<<<"a">>>>, <<Node("tuple", << >>, << >>, << >>)>>),
              DictOf(<<<<"a">>>>, <<Leaf("datetime", IsoText)>>)}

InitConvert ==
    /\ InitBridge
    /\ InitRegistry
    /\ InitMiddleware
    /\ InitManager
    /\ InitUnified
    /\ InitServer
    /\ InitBreaker
    /\ arg \in {[op |-> "convert", fn |-> "from_js_to_python", x |-> x] :
                    x \in JsEnvelopes \cup Primitives}
               \cup {[op |-> "convert", fn |-> "typescript_to_python", x |-> x] :
                    x \in TypescriptEnvelopes \cup Primitives}
               \cup {[op |-> "convert", fn |-> f, x |-> x] :
                    f \in {"from_python_to_js", "python_to_typescript"},
                    x \in PythonValues}
    /\ val = NoVal

\* The call of fn is due.
Called(fn) ==
    /\ arg.op = "convert"
    /\ arg.fn = fn
    /\ val.stage = 0

JsToPython == Called("from_js_to_python") /\ Converted(from_js_to_python(arg.x))
PythonToJs == Called("from_python_to_js") /\ Converted(from_python_to_js(arg.x))
TypescriptToPython ==
    Called("typescript_to_python") /\ Converted(typescript_to_python(arg.x))
PythonToTypescript ==
    Called("python_to_typescript") /\ Converted(python_to_typescript(arg.x))

NextConvert ==
    \/ JsToPython
    \/ PythonToJs
    \/ TypescriptToPython
    \/ PythonToTypescript

SpecConvert == InitConvert /\ [][NextConvert]_vars

\* ------------------------------------------ one validation of a value
\* Schemas with one keyword beside the type.
OfType(t) == [NoKeywords EXCEPT !.type = t]
WithEnum(e) == [NoKeywords EXCEPT !.has = {"enum"}, !.enum = e]
WithConst(c) == [NoKeywords EXCEPT !.has = {"const"}, !.const = c]
WithMinimum(n) == [NoKeywords EXCEPT !.has = {"minimum"}, !.minimum = n]
WithMaximum(n) == [NoKeywords EXCEPT !.has = {"maximum"}, !.maximum = n]
WithMinLength(n) == [NoKeywords EXCEPT !.has = {"minLength"}, !.minLength = n]
WithMaxLength(n) == [NoKeywords EXCEPT !.has = {"maxLength"}, !.maxLength = n]
WithPattern(c) == [NoKeywords EXCEPT !.has = {"pattern"}, !.pattern = c]
WithRequired(r) == [NoKeywords EXCEPT !.has = {"required"}, !.required = r]
WithAnyOf(ss) == [NoKeywords EXCEPT !.has = {"anyOf"}, !.anyOf = ss]
WithOneOf(ss) == [NoKeywords EXCEPT !.has = {"oneOf"}, !.oneOf = ss]
WithAllOf(ss) == [NoKeywords EXCEPT !.has = {"allOf"}, !.allOf = ss]

\* The schemas handed to the validator: each keyword alone, and together
\* with a type.
ConstraintSchemas ==
    {NoKeywords, WithEnum({Number(1)}), WithEnum({Str(<<"b", "b">>)}), WithConst(Number(1)),
     WithConst(Str(<<"a">>)), WithMinimum(2), WithMaximum(1), WithMinLength(2),
     WithMaxLength(1), WithPattern("b"), WithRequired({<<"a">>}),
     WithAnyOf(<<OfType("string"), OfType("null")>>),
     WithAnyOf(<<[WithMinimum(2) EXCEPT !.type = "number"]>>),
     WithOneOf(<<OfType("number"), [WithMinimum(2) EXCEPT !.type = "integer"]>>),
     WithAllOf(<<[WithMinimum(2) EXCEPT !.type = "number"]>>),
     WithAllOf(<<[WithMinLength(2) EXCEPT !.type = "string"]>>),
     [WithMinLength(2) EXCEPT !.has = {"minLength", "pattern"}, !.pattern = "b"],
     [WithMinimum(2) EXCEPT !.has = {"minimum", "maximum"}, !.maximum = 0],
     WithRequired({<<"a">>, <<"b">>})}
SchemaTypes ==
    {"absent", "string", "number", "integer", "boolean", "array", "object", "null"}
Schemas == {[S EXCEPT !.type = t] : S \in ConstraintSchemas, t \in SchemaTypes}

\* The values handed to the validator.
Values ==
    {Number(1), Number(2), Boolean(TRUE), Str(<<"a">>), Str(<<"b", "b">>), PyNone, ListOf(<< >>),
     DictOf(<< >>, << >>), DictOf(<<<<"a">>>>, <<Number(1)>>)}

InitValidate ==
    /\ InitBridge
    /\ InitRegistry
    /\ InitMiddleware
    /\ InitManager
    /\ InitUnified
    /\ InitServer
    /\ InitBreaker
    /\ arg \in {[op |-> "validate", schema |-> S, value |-> v] :
                    S \in Schemas, v \in Values}
    /\ val = NoVal

ValidateAgainstSchema ==
    /\ arg.op = "validate"
    /\ val.stage = 0
    /\ val' = [stage |-> 1, ok |-> validate_against_schema(arg.value, arg.schema),
               errors |-> error_messages(arg.value, arg.schema)]
    /\ UNCHANGED <<bridgeVars, breakerVars, serverVars, registryVars, middlewareVars, managerVars,
                   unifiedVars, arg>>

NextValidate == ValidateAgainstSchema

SpecValidate == InitValidate /\ [][NextValidate]_vars

\* ------------------------------------- EvolutionBridge.handle_request
\* The members of a request object: "absent" for a member it does not
\* have; "a list" for a method that is a JSON array, "positional" for params
\* that are a non-empty JSON array, "named" for params that are an object
\* with the names of the parameters of evolve_agents.
RpcRequests ==
    [op : {"rpc"}, jsonrpc : {"absent", "2.0", "1.0"},
     method : {"absent", "get_status", "evolve_agents", "unknown_method", "a list"},
     params : {"absent", "empty", "named", "positional"},
     id : {"absent", "1"}]

\* The keys of method_handlers, lines 379-389.
method_handlers ==
    {"evolve_agents", "get_population_state", "update_fitness", "start_evolution",
     "get_status", "stop_evolution", "get_evolution_metrics", "save_checkpoint",
     "load_checkpoint"}

\* request.get("id")
rpc_id(request) == IF request.id = "absent" THEN "None" ELSE request.id

rpc_error(code, request) == [kind |-> "error", code |-> code, id |-> rpc_id(request)]
rpc_result(request) == [kind |-> "result", code |-> 0, id |-> rpc_id(request)]
rpc_raise == [kind |-> "raise", code |-> 0, id |-> "None"]

\* The call of the handler, lines 403-407: handler() for params that are
\* missing or empty, handler(**params) otherwise. The call itself raises
\* TypeError for params that are no mapping, for names the handler does not
\* take and for required parameters that are missing; body is what the
\* handler does when it runs.
handler_raises(request, body) ==
    \/ request.params = "positional"
    \/ request.params = "named" /\ request.method # "evolve_agents"
    \/ request.params \in {"absent", "empty"} /\ request.method = "evolve_agents"
    \/ body = "raises"

\* EvolutionBridge.handle_request. `method not in method_handlers` hashes the
\* method outside the try block.
evolution_handle_request(request, body) ==
    IF request.jsonrpc # "2.0" THEN rpc_error(-32600, request)
    ELSE IF request.method = "a list" THEN rpc_raise
    ELSE IF request.method \notin method_handlers THEN rpc_error(-32601, request)
    ELSE IF handler_raises(request, body) THEN rpc_error(-32603, request)
    ELSE rpc_result(request)

InitEvolution ==
    /\ InitBridge
    /\ InitRegistry
    /\ InitMiddleware
    /\ InitManager
    /\ InitUnified
    /\ InitServer
    /\ InitBreaker
    /\ arg \in RpcRequests
    /\ val = NoVal

EvolutionHandleRequest(body) ==
    /\ arg.op = "rpc"
    /\ val.stage = 0
    /\ val' = [stage |-> 1, body |-> body, response |-> evolution_handle_request(arg, body)]
    /\ UNCHANGED <<bridgeVars, breakerVars, serverVars, registryVars, middlewareVars, managerVars,
                   unifiedVars, arg>>

NextEvolution == \E body \in {"returns", "raises"} : EvolutionHandleRequest(body)

SpecEvolution == InitEvolution /\ [][NextEvolution]_vars

\* --------------------------------- the circuit breaker on its own
InitBreakerOps ==
    /\ InitBridge
    /\ InitRegistry
    /\ InitMiddleware
    /\ InitManager
    /\ InitUnified
    /\ InitServer
    /\ InitPure
    /\ InitBreaker

\* execute lines 212-219: under the lock the call is rejected, or let
\* through, and then suspends in func().
Execute(c) ==
    /\ executing[c].pc = "idle"
    /\ executing[c].executes < MaxExecutes
    /\ IF Admitted(breaker, now)
       THEN /\ breaker' = [breaker EXCEPT !.state = IF @ = "open" THEN "half-open" ELSE @]
            /\ executing' = [executing EXCEPT ![c] = [pc |-> "running",
                                                      trial |-> breaker.state = "open",
                                                      executes |-> @.executes + 1]]
       ELSE /\ executing' = [executing EXCEPT ![c].executes = @ + 1]
            /\ UNCHANGED breaker
    /\ UNCHANGED <<bridgeVars, serverVars, pureVars, registryVars, middlewareVars,
                   managerVars, unifiedVars, now>>

\* execute lines 220-222: func() returned.
FuncReturns(c) ==
    /\ executing[c].pc = "running"
    /\ breaker' = on_success(breaker)
    /\ executing' = [executing EXCEPT ![c].pc = "idle", ![c].trial = FALSE]
    /\ UNCHANGED <<bridgeVars, serverVars, pureVars, registryVars, middlewareVars,
                   managerVars, unifiedVars, now>>

\* execute lines 223-225: func() raised.
FuncRaises(c) ==
    /\ executing[c].pc = "running"
    /\ breaker' = on_failure(breaker, now)
    /\ executing' = [executing EXCEPT ![c].pc = "idle", ![c].trial = FALSE]
    /\ UNCHANGED <<bridgeVars, serverVars, pureVars, registryVars, middlewareVars,
                   managerVars, unifiedVars, now>>

\* time.time() advances.
Tick ==
    /\ now < MaxTime
    /\ now' = now + 1
    /\ UNCHANGED <<bridgeVars, serverVars, pureVars, registryVars, middlewareVars,
                   managerVars, unifiedVars, breaker, executing>>

NextBreaker ==
    \/ \E c \in Callers : Execute(c)
    \/ \E c \in Callers : FuncReturns(c)
    \/ \E c \in Callers : FuncRaises(c)
    \/ Tick

SpecBreaker == InitBreakerOps /\ [][NextBreaker]_vars

\* ---------------------------------------- the retry strategy
\* The strategies a caller constructs: the default one, and small ones with
\* a multiplier of 1/2, 1, 3/2 or 2.
Strategies ==
    {DefaultStrategy} \cup
    {Strategy(m, f[1], f[2], i, d) :
        m \in 0..2, f \in {<<1, 2>>, <<1, 1>>, <<3, 2>>, <<2, 1>>},
        i \in {0, 1, 3}, d \in {0, 2, 5}}

RetryInputs ==
    [op : {"retry"}, strategy : Strategies, attempt : 0..MaxAttempt,
     last_error : {ToolError("TOOL_TIMEOUT", TRUE), ToolError("VALIDATION_ERROR", FALSE)}]

InitRetry ==
    /\ InitBridge
    /\ InitRegistry
    /\ InitMiddleware
    /\ InitManager
    /\ InitUnified
    /\ InitServer
    /\ InitBreaker
    /\ arg \in RetryInputs
    /\ val = NoVal

RetryOp ==
    /\ arg.op = "retry"
    /\ val.stage = 0
    /\ UNCHANGED <<bridgeVars, breakerVars, serverVars, registryVars, middlewareVars, managerVars,
                   unifiedVars, arg>>

ShouldRetry ==
    /\ val' = [stage |-> 1, fn |-> "should_retry",
               out |-> should_retry(arg.strategy, arg.attempt, arg.last_error)]
    /\ RetryOp

GetDelay ==
    /\ val' = [stage |-> 1, fn |-> "get_delay", out |-> get_delay(arg.strategy, arg.attempt)]
    /\ RetryOp

CreateRetryStrategy ==
    /\ val' = [stage |-> 1, fn |-> "create_retry_strategy",
               out |-> create_retry_strategy(arg.last_error)]
    /\ RetryOp

NextRetry ==
    \/ ShouldRetry
    \/ GetDelay
    \/ CreateRetryStrategy

SpecRetry == InitRetry /\ [][NextRetry]_vars

\* ======================================================== the claims
Registered(tool, language) == RegistryKey(language, tool) \in DOMAIN tools

\* The parameter object has every key the registered schema requires.
SatisfiesSchema(tool, language, params) ==
    /\ Registered(tool, language)
    /\ tools[RegistryKey(language, tool)].schema.required \subseteq params

IsExecute(t) == call[t].op = "execute"
RoutedTo(t, language) == IsExecute(t) /\ call[t].language = language
RemoteCall(t) == myid[t] # NoId
ExecuteLines(t) == {e \in wire : e.task = t /\ e.method = "tool.execute"}

\* The status the specification gives an outcome.
StatusOf(o) ==
    IF o.kind = "return" THEN "success"
    ELSE IF o.exc = "TimeoutError" THEN "timeout"
    ELSE IF o.exc = "CancelledError" THEN "cancelled"
    ELSE "error"

\* C1: whatever the order in which the responses arrive, a future is only
\* ever resolved with the response that carries the id its task stored it
\* under, and the result or peer error an execute call ends with is the
\* response to the envelope that call wrote.
C1_Correlation ==
    \A t \in Tasks :
        /\ fut[t] = "result" =>
               futval[t].id = (IF RemoteCall(t) THEN myid[t] ELSE ReadyCheckId)
        /\ outcome[t].respId # NoId =>
               /\ outcome[t].respId = myid[t]
               /\ \E e \in wire : e.task = t /\ e.id = outcome[t].respId

\* C1 witness: two execute calls were in flight together and the one issued
\* later has got its own response while the earlier one still waits.
C1_Witness ==
    \E t, u \in Tasks :
        /\ RoutedTo(t, "typescript") /\ RoutedTo(u, "typescript")
        /\ RemoteCall(t) /\ RemoteCall(u) /\ myid[t] < myid[u]
        /\ pc[t] = "ts_wait" /\ fut[t] = "pending"
        /\ pc[u] = "done" /\ outcome[u].kind = "return" /\ outcome[u].respId = myid[u]

\* C2: a remote call is resolved at most once, and once it has ended its id
\* is not a key of pending_requests any more.
C2_ResolvedOnceEntryRemoved ==
    \A t \in Tasks :
        RemoteCall(t) =>
            /\ resolutions[t] <= 1
            /\ pc[t] = "done" => myid[t] \notin DOMAIN pending_requests

\* C3: every tool.execute and register.module envelope is written to a
\* process whose readiness handshake has observed a pong.
C3_NoCallBeforePong ==
    \A e \in wire : e.method \in {"tool.execute", "register.module"} => e.afterPong

\* C4: in the step in which shutdown() returns, no remote call is left
\* waiting on an unresolved future and pending_requests holds no call.
C4_ShutdownResolvesCalls ==
    [][\A t \in Tasks :
          (call'[t].op = "shutdown" /\ pc[t] # "done" /\ pc'[t] = "done"
              /\ outcome'[t].kind = "return")
          => /\ \A u \in Tasks : pc'[u] \in {"ts_wait", "reg_wait"} => fut'[u] # "pending"
             /\ \A k \in DOMAIN pending_requests' : k = ReadyCheckId]_vars

\* C5: a peer call whose cancellation signal was set while it was in flight
\* ends with status cancelled, and from the moment the signal is set its id
\* is not a key of pending_requests.
C5_CancelledWhenSignalled ==
    \A t \in Tasks :
        (RoutedTo(t, "typescript") /\ abort[t]) =>
            /\ pc[t] = "done" => StatusOf(outcome[t]) = "cancelled"
            /\ RemoteCall(t) => myid[t] \notin DOMAIN pending_requests

C7_LocalGuard ==
    \A t \in Tasks :
        RoutedTo(t, "python") =>
            /\ handlerCalls[t] > 0 => SatisfiesSchema(call[t].tool, "python", call[t].params)
            /\ ~Registered(call[t].tool, "python") =>
                  /\ pc[t] = "done" /\ handlerCalls[t] = 0
                  /\ outcome[t] = Raise("ValueError",
                                        <<"Python tool '", call[t].tool, "' not found">>, NoId)
            /\ (Registered(call[t].tool, "python")
                   /\ ~SatisfiesSchema(call[t].tool, "python", call[t].params)) =>
                  /\ pc[t] = "done" /\ handlerCalls[t] = 0
                  /\ outcome[t].kind = "raise" /\ outcome[t].exc = "ValueError"
                  /\ Head(outcome[t].msg) = "Invalid parameters: "

\* C7 witness: one local call was refused for its parameters and another
\* one reached the handler.
C7_Witness ==
    \E t, u \in Tasks :
        /\ RoutedTo(t, "python") /\ Registered(call[t].tool, "python")
        /\ ~SatisfiesSchema(call[t].tool, "python", call[t].params) /\ pc[t] = "done"
        /\ RoutedTo(u, "python") /\ handlerCalls[u] = 1

\* C8: a tool.execute envelope is only written for a tool that is
\* registered for the peer runtime and for parameters that satisfy its schema.
C8_FailFastBeforeTransport ==
    \A e \in wire :
        e.method = "tool.execute" => SatisfiesSchema(e.tool, "typescript", e.params)

\* C9: for one execute call the bridge writes at most one tool.execute
\* envelope and invokes the local handler at most once.
C9_NoRetry ==
    \A t \in Tasks :
        /\ Cardinality(ExecuteLines(t)) <= 1
        /\ handlerCalls[t] <= 1

\* C9 witness: a peer call has timed out and ended, with the one envelope
\* it wrote, and a local call has ended after its handler failed.
C9_Witness ==
    \E t, u \in Tasks :
        /\ RoutedTo(t, "typescript") /\ pc[t] = "done"
        /\ outcome[t].exc = "TimeoutError" /\ Cardinality(ExecuteLines(t)) = 1
        /\ RoutedTo(u, "python") /\ pc[u] = "done"
        /\ outcome[u].exc \in {"HandlerError", "TimeoutError"} /\ handlerCalls[u] = 1

\* C10: the ids allocated on one bridge are pairwise distinct and below the
\* counter, every numeric key of pending_requests is the id of the task its
\* future belongs to, and each allocation yields the counter's value, above
\* every id allocated before, and advances the counter.
C10_IdsDistinctIncreasing ==
    /\ [](\A t \in Tasks :
            RemoteCall(t) =>
                /\ myid[t] >= 0 /\ myid[t] < request_id
                /\ \A u \in Tasks \ {t} : myid[u] # myid[t])
    /\ [](\A k \in DOMAIN pending_requests :
            k # ReadyCheckId => myid[pending_requests[k]] = k)
    /\ [][\A t \in Tasks :
            myid'[t] # myid[t] =>
                /\ myid'[t] = request_id
                /\ request_id' > request_id
                /\ \A u \in Tasks : myid[u] < myid'[t]]_vars

\* C10 witness: two calls with different ids are pending at the same time.
C10_Witness ==
    \E t, u \in Tasks :
        /\ RemoteCall(t) /\ RemoteCall(u) /\ myid[t] < myid[u]
        /\ myid[t] \in DOMAIN pending_requests /\ myid[u] \in DOMAIN pending_requests
        /\ fut[t] = "pending" /\ fut[u] = "pending"

FailedInRun(t) ==
    /\ IsExecute(t) /\ pc[t] = "done" /\ outcome[t].kind = "raise"
    /\ \/ call[t].language = "python" /\ handlerCalls[t] = 1
       \/ /\ call[t].language = "typescript" /\ RemoteCall(t)
          /\ fut[t] = "cancelled" \/ (fut[t] = "result" /\ futval[t].kind = "error")

\* C12: a local and a peer execution that failed in the same way (both by
\* timeout, or both by an error of the tool) give the caller the same
\* exception type, and for a timeout the same message.
C12_RuntimeIndistinguishable ==
    \A t, u \in Tasks :
        (/\ FailedInRun(t) /\ call[t].language = "python"
         /\ FailedInRun(u) /\ call[u].language = "typescript"
         /\ StatusOf(outcome[t]) = StatusOf(outcome[u]))
        => /\ outcome[t].exc = outcome[u].exc
           /\ StatusOf(outcome[t]) = "timeout" => outcome[t].msg = outcome[u].msg

\* C13: after any sequence of add_handler calls the last handler of the
\* list is the catch-all DefaultErrorHandler, so the selection in
\* handle_error finds a handler for the exception and handle_error gives a
\* result with status error that holds a ToolError with a code.
C13_CatchAllLast ==
    /\ Len(handlers) >= Len(DefaultHandlers)
    /\ handlers[Len(handlers)] = "DefaultErrorHandler"
    /\ can_handle(handlers[Len(handlers)], error)
    /\ handle_error(handlers, error).status = "error"
    /\ result # NoResult => result.status = "error" /\ result.error.code # ""

\* C13 witness: an exception was handled after a handler had been added.
C13_Witness ==
    /\ Len(handlers) > Len(DefaultHandlers)
    /\ result.status = "error"

\* The ordered matcher list of the specification, first match wins.
SpecifiedClassification(e) ==
    IF can_handle("TimeoutErrorHandler", e) THEN ToolError("TOOL_TIMEOUT", TRUE)
    ELSE IF can_handle("ValidationErrorHandler", e) THEN ToolError("VALIDATION_ERROR", FALSE)
    ELSE IF can_handle("PermissionErrorHandler", e) THEN ToolError("PERMISSION_DENIED", FALSE)
    ELSE IF can_handle("ResourceErrorHandler", e) THEN ToolError("RESOURCE_NOT_FOUND", FALSE)
    ELSE IF can_handle("TypeScriptExecutionErrorHandler", e)
    THEN ToolError("TYPESCRIPT_EXECUTION_ERROR", TypeScript_is_retryable(e))
    ELSE ToolError("UNKNOWN_ERROR", FALSE)

\* C14: with the handlers of __init__, the code and the retryable flag
\* handle_error gives are those of the specified matcher list.
C14_SpecifiedOrder ==
    (handlers = DefaultHandlers /\ result # NoResult)
        => result.error = SpecifiedClassification(error)

\* C15: the ValueError 'Invalid parameters: ...' that execute raises is
\* classified as VALIDATION_ERROR and not retryable, whatever other words
\* the validator's messages put into it.
C15_InvalidParametersIsValidation ==
    (/\ handlers = DefaultHandlers /\ result # NoResult
     /\ error.type = "ValueError" /\ "invalid parameters" \in error.markers
     /\ error.code = "" /\ error.source = "")
        => result.error = ToolError("VALIDATION_ERROR", FALSE)

\* What get(id, language) finds in the dict d.
Lookup(d, id, language) ==
    IF RegistryKey(language, id) \in DOMAIN d THEN {d[RegistryKey(language, id)]} ELSE {}

\* C16: get(id, runtime) gives the registration last made for that pair
\* since the last clear, or nothing; a register or load leaves what get
\* gives for every other pair as it was; and list_tools has exactly one
\* entry for each registered pair and no other entry.
C16_RegistryLookup ==
    /\ \A id \in RegIds, language \in Languages :
          /\ ToolRegistry_get(id, language) =
                (IF <<language, id>> \in DOMAIN latest
                 THEN {latest[<<language, id>>]} ELSE {})
          /\ (lastOp.op \in {"register", "load"} /\ lastOp.key # <<language, id>>) =>
                ToolRegistry_get(id, language) = Lookup(lastOp.before, id, language)
    /\ \A pair \in DOMAIN latest :
          Cardinality({k \in DOMAIN list_tools :
                          <<list_tools[k].language, list_tools[k].id>> = pair}) = 1
    /\ Cardinality(DOMAIN list_tools) = Cardinality(DOMAIN latest)

\* C16 witness: an id is registered in both runtimes and the last
\* operation replaced one of the two registrations.
C16_Witness ==
    /\ lastOp.op = "register"
    /\ Lookup(lastOp.before, lastOp.key[2], lastOp.key[1]) # {}
    /\ <<"python", lastOp.key[2]>> \in DOMAIN latest
    /\ <<"typescript", lastOp.key[2]>> \in DOMAIN latest

\* C17: after a load_python_module that raised, the registry is the one
\* the call found; after one that returned, the registry differs from the
\* one it found in exactly the python registration of the module's tool.
C17_LoadAllOrNothing ==
    lastOp.op = "load" =>
        IF lastOp.raised # ""
        THEN tools = lastOp.before
        ELSE LET k == RegistryKey("python", lastOp.key[2])
             IN  /\ DOMAIN tools = DOMAIN lastOp.before \cup {k}
                 /\ tools[k].language = "python" /\ tools[k].id = lastOp.key[2]
                 /\ tools[k].handler = regOps
                 /\ \A j \in DOMAIN tools \ {k} : tools[j] = lastOp.before[j]

\* C17 witness: a load failed on a registry that held a registration.
C17_Witness ==
    /\ lastOp.op = "load" /\ lastOp.raised = "ValueError"
    /\ lastOp.before # << >>

\* The ids an index of the manager holds.
Indexed(index) == UNION {index[k] : k \in DOMAIN index}

\* C18: in every state a reader can observe, a tool id is in the tools map
\* exactly if it is in the capability index and in the category index, and
\* a registered tool is indexed under its category and its capabilities.
C18_TablesAgree ==
    /\ Indexed(manager.capabilities) = DOMAIN manager.tools
    /\ Indexed(manager.categories) = DOMAIN manager.tools
    /\ \A id \in DOMAIN manager.tools :
          /\ \A c \in manager.tools[id].capabilities :
                c \in DOMAIN manager.capabilities /\ id \in manager.capabilities[c]
          /\ manager.tools[id].category \in DOMAIN manager.categories
          /\ id \in manager.categories[manager.tools[id].category]

\* C19: get(tool_id) without a runtime, for an id registered in both
\* runtimes, gives the Python registration.
C19_FixedTieBreak ==
    \A id \in UnifiedIds :
        (/\ unified_get(unified.tools, id, "python") # {}
         /\ unified_get(unified.tools, id, "typescript") # {})
        => unified_get(unified.tools, id, "") = unified_get(unified.tools, id, "python")

\* C20: execute_tool without a language runs the Python registration
\* whenever the id has one, the TypeScript registration only when it is the
\* only one, and with neither raises "Tool '<id>' not found" with no handler
\* invoked and nothing written to the peer.
C20_AutoRouting ==
    \A t \in Tasks :
        IsExecute(t) =>
            LET py == Registered(call[t].tool, "python")
                ts == Registered(call[t].tool, "typescript")
            IN  /\ py => /\ call[t].language = "python"
                         /\ {e \in wire : e.task = t} = {}
                         /\ SatisfiesSchema(call[t].tool, "python", call[t].params)
                               => handlerCalls[t] = 1
                /\ (ts /\ ~py) => /\ call[t].language = "typescript"
                                   /\ handlerCalls[t] = 0
                                   /\ \A e \in ExecuteLines(t) : e.tool = call[t].tool
                /\ (~ts /\ ~py) =>
                       /\ call[t].language = "not found"
                       /\ pc[t] = "done"
                       /\ outcome[t] = Raise("ValueError",
                                              <<"Tool '", call[t].tool, "' not found">>, NoId)
                       /\ handlerCalls[t] = 0
                       /\ {e \in wire : e.task = t} = {}
                       /\ myid[t] = NoId

\* One call ran the Python handler of an id both runtimes have, and another
\* sent an id only TypeScript has to the peer.
C20_Witness ==
    \E t, u \in Tasks :
        /\ IsExecute(t)
        /\ Registered(call[t].tool, "python") /\ Registered(call[t].tool, "typescript")
        /\ handlerCalls[t] = 1
        /\ outcome[t].kind = "return"
        /\ IsExecute(u)
        /\ ~Registered(call[u].tool, "python") /\ Registered(call[u].tool, "typescript")
        /\ ExecuteLines(u) # {}

\* A call for an id no runtime has ended with the not-found error.
C20_WitnessNotFound ==
    \E t \in Tasks :
        /\ IsExecute(t)
        /\ call[t].language = "not found"
        /\ outcome[t].kind = "raise"

\* A shutdown() that wrote its envelope to a live peer ends in this step.
ShutdownEnds(t) ==
    /\ call[t].op = "shutdown"
    /\ pc[t] \in {"sd_wait", "sd_term"}
    /\ pc'[t] = "done"

\* terminate() and kill() come in the order of the escalation: terminate
\* only on a peer that was sent the shutdown envelope and has not exited,
\* kill only on a peer that is still alive after terminate.
EscalationOrder ==
    \A sig \in signals' \ signals :
        /\ procState[sig[1]] = "alive"
        /\ \E e \in wire : e.proc = sig[1] /\ e.method = "shutdown"
        /\ sig[2] = "kill" => <<sig[1], "terminate">> \in signals

\* C21: shutdown() on a bridge with a live peer writes the shutdown
\* envelope, waits, terminates only a peer that has not exited, kills only a
\* peer still alive after terminate, and always returns, with no process
\* handle left in the bridge and the peer it was shutting down gone.
C21_ShutdownEscalates ==
    [][/\ EscalationOrder
       /\ \A t \in Tasks :
             ShutdownEnds(t) =>
                 /\ outcome'[t].kind = "return"
                 /\ typescript_process' = None
                 /\ procState'[waitproc[t]] = "exited"]_vars

\* A readiness handshake has ended without a pong.
HandshakeFailed ==
    \E t \in Tasks :
        outcome[t] = Raise("RuntimeError", <<"TypeScript bridge failed to start">>, NoId)

\* C22: a handshake that sees no pong in its last attempt ends with an
\* error, and once a handshake has failed no tool.execute or register.module
\* envelope is written to the peer.
C22_HandshakeFailureFatal ==
    [][/\ \A t \in Tasks :
             (pc[t] = "hs_sleep" /\ attempt[t] = ReadyAttempts /\ pc'[t] # pc[t])
                 => outcome'[t].kind = "raise"
       /\ HandshakeFailed =>
             \A e \in wire' \ wire : e.method \notin {"tool.execute", "register.module"}]_vars

\* The bridge holds the handle of a peer process that has exited.
DeadTransport ==
    /\ typescript_process # None
    /\ procState[typescript_process] = "exited"

\* C23: after the peer has exited, the bridge spawns no peer unless a caller
\* asks, and an initialize() that follows a completed shutdown() replaces the
\* dead peer by a fresh one instead of returning as a no-op.
C23_ReinitializeEffective ==
    [][/\ DOMAIN procState' # DOMAIN procState
             => \E t \in Tasks : pc[t] = "idle" /\ pc'[t] # "idle"
       /\ \A t \in Tasks :
             (/\ pc[t] = "idle"
              /\ call'[t].op = "initialize"
              /\ DeadTransport
              /\ \E u \in Tasks : call[u].op = "shutdown" /\ pc[u] = "done")
             => /\ typescript_process' # typescript_process
                /\ typescript_process' # None]_vars

\* C24: a line that is not JSON ends the transport it came on: the calls in
\* flight fail in that step, and no response of that process is dispatched
\* to a future afterwards.
C24_MalformedLineFatal ==
    [][/\ garbled' # garbled
             => \A t \in Tasks :
                    pc[t] \in {"ts_wait", "reg_wait"}
                        => pc'[t] = "done" /\ outcome'[t].kind = "raise"
       /\ \A t \in Tasks :
             (fut[t] = "pending" /\ fut'[t] = "result")
                 => futval'[t].proc \notin garbled]_vars

\* C25: for every non-empty line it reads the server writes one response,
\* with the id of the request where the line has one, and stays ready for
\* the next line.
C25_OneResponsePerLine ==
    [][server'.served > server.served
          => /\ server'.response.kind \in {"result", "error"}
             /\ server'.line.id # "absent" => server'.response.id = server'.line.id
             /\ server'.state # "stopped"]_vars

\* The response the wire contract gives a line: the methods it names are
\* answered as known methods, and an error carries the code of its cause.
SpecifiedResponse(line, resp) ==
    IF line.shape = "not json" THEN resp.kind = "error" /\ resp.code = ParseError
    ELSE IF line.jsonrpc # "2.0" THEN resp.kind = "error" /\ resp.code = InvalidRequest
    ELSE IF line.method = "ping" THEN resp.kind = "result" /\ resp.result = "pong"
    ELSE IF line.method \in {"shutdown", "registry.list"} THEN resp.kind = "result"
    ELSE IF line.method = "register.module"
    THEN IF line.params # "object" \/ line.module = "absent"
         THEN resp.kind = "error" /\ resp.code = InvalidParams
         ELSE IF line.module # "none"
         THEN resp.kind = "error" /\ resp.code = InternalError
         ELSE resp.kind = "result"
    ELSE IF line.method # "tool.execute"
    THEN resp.kind = "error" /\ resp.code = ToolNotFound
    ELSE IF line.params # "object" \/ line.tool = "absent" \/ line.language = "absent"
    THEN resp.kind = "error" /\ resp.code = InvalidParams
    ELSE IF ~ReachesExecute(line) THEN resp.kind = "error"
    ELSE IF line.language = "python" /\ ToolRegistry_get(line.tool, "python") = {}
    THEN resp.kind = "error" /\ resp.code = ToolNotFound
    ELSE \/ resp.kind = "result"
         \/ resp.kind = "error" /\ resp.code \in -32099..-32000

\* C26: the server answers ping, tool.execute, registry.list,
\* register.module and shutdown as known methods, and every error response
\* it writes has the code of its cause.
C26_CodesByCause ==
    server.response # NotWritten => SpecifiedResponse(server.line, server.response)

\* C27: register_typescript_module returns only when the peer answered its
\* register.module request with a result; after an error response or no
\* response in time it raises.
C27_RegistrationExplicit ==
    \A t \in Tasks :
        (call[t].op = "register" /\ pc[t] = "done")
            => /\ outcome[t].kind = "return"
                   => futval[t].kind = "result" /\ futval[t].id = myid[t]
               /\ (fut[t] = "cancelled" \/ futval[t].kind = "error")
                   => outcome[t].kind = "raise"

\* C28: a JSON-compatible tree whose map keys are letters and digits comes
\* back unchanged from a conversion to the peer representation and back, and
\* from a conversion to the local representation and back, for the key
\* converters and for the value codec.
C28_RoundTrip ==
    (arg.op = "round trip" /\ val.stage = 2) => val.out = arg.x

\* The value is an envelope with a type tag that its decoder does not know.
UnknownTag(fn, x) ==
    /\ x.kind = "dict"
    /\ \/ /\ fn = "from_js_to_python"
          /\ Has(x, TypeKey)
          /\ Get(x, TypeKey) \notin {Str(<<"Date">>), Str(<<"Buffer">>), Str(<<"Set">>),
                                     Str(<<"Map">>)}
       \/ /\ fn = "typescript_to_python"
          /\ Has(x, TypeKey2)
          /\ Get(x, TypeKey2) \notin {Str(<<"datetime">>), Str(<<"set">>), Str(<<"bytes">>),
                                      Str(<<"Decimal">>)}

\* C29: every conversion returns a value and none raises; an envelope with
\* an unknown type tag is returned unchanged, and an envelope with a known
\* tag and missing or malformed fields still gives a value.
C29_ConversionTotal ==
    (arg.op = "convert" /\ val.stage = 1) =>
        /\ val.out.kind # "raise"
        /\ UnknownTag(arg.fn, arg.x) => val.out = arg.x

\* The value is of the JSON type t; a boolean is not a number.
OfJsonType(v, t) ==
    CASE t = "string" -> v.kind = "str"
      [] t = "number" -> v.kind \in {"int", "float"}
      [] t = "integer" -> v.kind = "int"
      [] t = "boolean" -> v.kind = "bool"
      [] t = "array" -> v.kind = "list"
      [] t = "object" -> v.kind = "dict"
      [] t = "null" -> v.kind = "none"

\* v satisfies every constraint present in S; a constraint on numbers,
\* strings or objects says nothing about a value of another kind.
RECURSIVE Satisfies(_, _)
Satisfies(S, v) ==
    /\ S.type # "absent" => OfJsonType(v, S.type)
    /\ "enum" \in S.has => v \in S.enum
    /\ "const" \in S.has => v = S.const
    /\ ("minimum" \in S.has /\ v.kind = "int") => NumberOf(v) >= S.minimum
    /\ ("maximum" \in S.has /\ v.kind = "int") => NumberOf(v) <= S.maximum
    /\ ("minLength" \in S.has /\ v.kind = "str") => Len(v.v) >= S.minLength
    /\ ("maxLength" \in S.has /\ v.kind = "str") => Len(v.v) <= S.maxLength
    /\ ("pattern" \in S.has /\ v.kind = "str") =>
           \E i \in 1..Len(v.v) : v.v[i] = S.pattern
    /\ ("required" \in S.has /\ v.kind = "dict") => \A key \in S.required : Has(v, key)
    /\ "anyOf" \in S.has => \E i \in 1..Len(S.anyOf) : Satisfies(S.anyOf[i], v)
    /\ "oneOf" \in S.has =>
           Cardinality({i \in 1..Len(S.oneOf) : Satisfies(S.oneOf[i], v)}) = 1
    /\ "allOf" \in S.has => \A i \in 1..Len(S.allOf) : Satisfies(S.allOf[i], v)

\* C30: validation reports ok exactly when the value satisfies every
\* constraint present in the schema, also when a type occurs together with
\* enum, const or a composition keyword.
C30_ValidationExact ==
    (arg.op = "validate" /\ val.stage = 1) =>
        (val.ok <=> Satisfies(arg.schema, arg.value))

\* The constraints of S that v violates, by keyword.
Violations(S, v) ==
    {kw \in S.has \cup {"type"} :
        ~Satisfies([NoKeywords EXCEPT
                       !.type = IF kw = "type" THEN S.type ELSE "absent",
                       !.has = {kw} \cap S.has,
                       !.enum = S.enum, !.const = S.const, !.minimum = S.minimum,
                       !.maximum = S.maximum, !.minLength = S.minLength,
                       !.maxLength = S.maxLength, !.pattern = S.pattern,
                       !.required = S.required, !.anyOf = S.anyOf, !.oneOf = S.oneOf,
                       !.allOf = S.allOf], v)}

\* C31: validation returns ok and no message when no constraint is violated,
\* and when it fails it returns one message for every violated constraint,
\* not only for the first one found.
C31_EveryViolation ==
    (arg.op = "validate" /\ val.stage = 1) =>
        /\ Violations(arg.schema, arg.value) = {} => (val.ok /\ val.errors = 0)
        /\ ~val.ok => val.errors = Cardinality(Violations(arg.schema, arg.value))

\* C32: an exception raised by a local tool handler reaches the caller of
\* the call as that same exception, type and message unchanged; the call
\* gives no result and the handler is not invoked again.
C32_HandlerErrorReachesCaller ==
    \A t \in Tasks :
        thrown[t] # NoOutcome =>
            /\ pc[t] = "done"
            /\ outcome[t] = thrown[t]
            /\ handlerCalls[t] = 1

\* C33: EvolutionBridge.handle_request never raises and answers every
\* request object with a response that carries the request's id: error
\* -32600 when jsonrpc is missing or not "2.0", error -32601 when the method
\* is not a registered one, error -32603 when the handler raises, and a
\* result otherwise.
C33_EvolutionResponds ==
    (arg.op = "rpc" /\ val.stage = 1) =>
        /\ val.response.kind \in {"result", "error"}
        /\ val.response.id = rpc_id(arg)
        /\ val.response =
              IF arg.jsonrpc # "2.0" THEN rpc_error(-32600, arg)
              ELSE IF arg.method \notin method_handlers THEN rpc_error(-32601, arg)
              ELSE IF handler_raises(arg, val.body) THEN rpc_error(-32603, arg)
              ELSE rpc_result(arg)

\* The peer processes that are running.
Alive == {p \in DOMAIN procState : procState[p] = "alive"}

\* C34: at most one peer process spawned by the bridge is alive at any
\* time and a live peer is the one the bridge's handle refers to; a shutdown
\* signals, and drops the handle of, only the process it wrote its shutdown
\* envelope to.
C34_ExclusiveOwnership ==
    /\ [](Cardinality(Alive) <= 1 /\ \A p \in Alive : typescript_process = p)
    /\ [][\A t \in DOMAIN pc :
             (pc[t] \in {"sd_wait", "sd_term"} /\ pc'[t] # pc[t]) =>
                 /\ \A sig \in signals' \ signals : sig[1] = waitproc[t]
                 /\ typescript_process' # typescript_process =>
                        typescript_process = waitproc[t]]_vars

\* call_typescript_tool finds a registration for the id (lines 137-139).
Callable(id) == id \in unified.typescript_tools

\* C35: when no register is suspended, a TypeScript tool id is callable
\* through the adapter exactly when the unified registry holds a TypeScript
\* registration for it, and a register that raised has left no registration.
C35_CallableIffRegistered ==
    unified.registering = {} =>
        \A id \in UnifiedIds :
            /\ Callable(id) <=> unified_get(unified.tools, id, "typescript") # {}
            /\ id \in unified.raised => unified_get(unified.tools, id, "typescript") = {}

\* The capabilities a tool or an index of the manager names.
ManagerCapabilities ==
    DOMAIN manager.capabilities \cup UNION {t.capabilities : t \in ManagerTools}

\* C36: for every capability c, get_tools_by_capability(c) returns exactly
\* the tools list_tools(capabilities=[c]) returns, and the capability and
\* category indexes hold only ids of registered tools.
C36_IndexesAgree ==
    /\ \A c \in ManagerCapabilities :
          get_tools_by_capability(manager, c) = manager_list_tools(manager, {c})
    /\ Indexed(manager.capabilities) \cup Indexed(manager.categories)
          \subseteq DOMAIN manager.tools \cup DOMAIN manager.remote_tools

\* The built-in handlers that match some errors and not others.
SpecificHandlers ==
    {"TimeoutErrorHandler", "ValidationErrorHandler", "TypeScriptExecutionErrorHandler",
     "PermissionErrorHandler", "ResourceErrorHandler"}

\* The place of the first occurrence of h in the list hs, 0 when it has none.
FirstIndex(hs, h) ==
    IF \E i \in 1..Len(hs) : hs[i] = h
    THEN CHOOSE i \in 1..Len(hs) : hs[i] = h /\ \A j \in 1..(i - 1) : hs[j] # h
    ELSE 0

\* C37: a handler added with priority 'high' is the first of the list; a
\* handler added with either priority stands before the catch-all
\* DefaultErrorHandler; and when a handler that accepts every error has
\* been added, it is the one selected for an error that no specific
\* built-in handler accepts.
C37_AddedHandlerPriority ==
    /\ \A h \in CustomHandlers : add_handler(handlers, h, "high")[1] = h
    /\ \A h \in CustomHandlers, priority \in {"high", "low"} :
          LET hs == add_handler(handlers, h, priority)
          IN  FirstIndex(hs, h) < FirstIndex(hs, "DefaultErrorHandler")
    /\ ( /\ result # NoResult
         /\ FirstIndex(handlers, "CustomAlways") # 0
         /\ \A b \in SpecificHandlers : ~can_handle(b, error) )
        => result.error = handle("CustomAlways", error)

\* C38: the state becomes OPEN only with the failure count at the threshold;
\* while the breaker is OPEN and reset_timeout has not elapsed since the last
\* failure, no execute is let through to the wrapped function and the state
\* stays OPEN; the call let through after reset_timeout makes the state
\* HALF_OPEN, its success gives CLOSED with the failure count 0, and its
\* failure gives OPEN.
C38_BreakerStates ==
    [][ /\ (breaker'.state = "open" /\ breaker.state # "open")
            => breaker'.failures >= Threshold
        /\ (breaker.state = "open" /\ now - breaker.last_failure_time <= ResetTimeout)
            => /\ breaker'.state = "open"
               /\ \A c \in Callers : executing'[c].pc = "running" => executing[c].pc = "running"
        /\ \A c \in Callers :
              /\ (executing'[c].trial /\ ~executing[c].trial) => breaker'.state = "half-open"
              /\ (executing[c].trial /\ executing'[c].pc = "idle" /\ breaker'.failures = 0)
                  => breaker'.state = "closed"
              /\ (executing[c].trial /\ executing'[c].pc = "idle" /\ breaker'.failures > 0)
                  => breaker'.state = "open" ]_vars

\* C39: should_retry is true exactly when attempt < max_attempts and the
\* error is retryable; get_delay never exceeds max_delay and is not smaller
\* for the next attempt than for this one; create_retry_strategy gives no
\* strategy for an error that is not retryable.
C39_RetryBounds ==
    val.stage = 1 /\ arg.op = "retry" =>
        /\ val.fn = "should_retry" =>
              /\ val.out <=> (arg.attempt < arg.strategy.max_attempts /\ arg.last_error.retryable)
              /\ ~arg.last_error.retryable => ~val.out
              /\ arg.attempt >= arg.strategy.max_attempts => ~val.out
        /\ val.fn = "get_delay" =>
              /\ val.out <= arg.strategy.max_delay
              /\ val.out <= get_delay(arg.strategy, arg.attempt + 1)
        /\ val.fn = "create_retry_strategy" =>
              (~arg.last_error.retryable => val.out.none)
====
